---- MODULE Spec2Model ----
(***************************************************************************)
(* Model of the document ingestion and vector-embedding synchronisation    *)
(* pipeline: the knowledge-base document task                              *)
(* (processKnowledgeBaseDocumentTask) and the helpers of sync-utils.ts     *)
(* (needsUpdate, createChunkItems).                                        *)
(*                                                                         *)
(* A JavaScript string is a tuple of one-character strings, so that        *)
(* comparison, trimming and slicing are computed and not assumed.  A text  *)
(* held in object storage is kept in the state run-length encoded (a       *)
(* tuple of [ch, n] runs) and expanded by Text when the code reads it.     *)
(***************************************************************************)
EXTENDS Integers, Sequences, FiniteSets, TLC

\* ---------------------------------------------------------------- bounds

\* Task runs dispatched by the runner in one behaviour.
NumRuns == 2
\* Edits of a source's content made by the surrounding application.
MaxEdits == 1
\* Longest list of existing embeddings handed to needsUpdate.
MaxExisting == 2
\* Longest text and largest chunkSize handed to chunkText on its own.
MaxText == 8
MaxChunk == 4
\* Concurrent callers of getOrCreateOrgContext for one organization.
NumCallers == 3

\* ------------------------------------------------------ program constants

\* chunkText(content, 500, 50) in the knowledge-base task; the defaults of
\* createChunkItems are the same numbers.
KBChunkSize == 500
KBOverlap == 50

\* The module-level vector index client; the model is of a deployment in
\* which it is configured (non-null).
vectorIndex == TRUE

Null == [null |-> TRUE]

\* ---------------------------------------------------------------- strings

Digits == <<"0", "1", "2", "3", "4", "5", "6", "7", "8", "9">>

\* UTF-16 code unit of the characters the model's strings are made of.
Code(c) ==
  CASE c = " " -> 32
    [] c = "-" -> 45
    [] c = "." -> 46
    [] c = "0" -> 48
    [] c = "1" -> 49
    [] c = "2" -> 50
    [] c = "3" -> 51
    [] c = "4" -> 52
    [] c = "5" -> 53
    [] c = "6" -> 54
    [] c = "7" -> 55
    [] c = "8" -> 56
    [] c = "9" -> 57
    [] c = ":" -> 58
    [] c = "T" -> 84
    [] c = "Z" -> 90
    [] c = "a" -> 97

\* a < b on two JavaScript strings: code units compared left to right, a
\* proper prefix being the smaller.
RECURSIVE StrLess(_, _)
StrLess(a, b) ==
  IF Len(b) = 0 THEN FALSE
  ELSE IF Len(a) = 0 THEN TRUE
  ELSE IF Code(Head(a)) # Code(Head(b)) THEN Code(Head(a)) < Code(Head(b))
  ELSE StrLess(Tail(a), Tail(b))

\* Date.prototype.toISOString of a Date the model counts in days of
\* January 2024: "2024-01-DDT00:00:00.000Z".
ToISOString(day) ==
  <<"2", "0", "2", "4", "-", "0", "1", "-",
    Digits[(day \div 10) + 1], Digits[(day % 10) + 1],
    "T", "0", "0", ":", "0", "0", ":", "0", "0", ".", "0", "0", "0", "Z">>

\* s repeated n times.
Repeat(s, n) == [i \in 1..(Len(s) * n) |-> s[((i - 1) % Len(s)) + 1]]

\* The characters of a run-length encoded text: each run is a character
\* ([ch, n]) or a string ([str, n]) repeated n times.
RECURSIVE Text(_)
Text(rle) ==
  IF rle = <<>> THEN <<>>
  ELSE (IF "ch" \in DOMAIN Head(rle)
        THEN [i \in 1..Head(rle).n |-> Head(rle).ch]
        ELSE Repeat(Head(rle).str, Head(rle).n)) \o Text(Tail(rle))

IsBlank_emptyOnly(s) == Len(s) = 0

\* !s || s.trim().length === 0
IsBlank(s) == \A i \in 1..Len(s) : s[i] = " "

\* ---------------------------------------------------------------- chunker

RECURSIVE ChunkFrom_gap(_, _, _, _)
ChunkFrom_gap(text, start, chunkSize, overlap) ==
  LET end == IF start + chunkSize - 1 < Len(text)
             THEN start + chunkSize - 1 ELSE Len(text)
  IN  IF end = Len(text) THEN <<SubSeq(text, start, end)>>
      ELSE <<SubSeq(text, start, end)>>
             \o ChunkFrom_gap(text, end + 1, chunkSize, overlap)

RECURSIVE ChunkFrom(_, _, _, _)
ChunkFrom(text, start, chunkSize, overlap) ==
  LET end == IF start + chunkSize - 1 < Len(text)
             THEN start + chunkSize - 1 ELSE Len(text)
  IN  IF end = Len(text) THEN <<SubSeq(text, start, end)>>
      ELSE <<SubSeq(text, start, end)>>
             \o ChunkFrom(text, end - overlap + 1, chunkSize, overlap)

\* The caller error of the chunker.
InvalidChunkConfig == [error |-> "InvalidChunkConfig"]

\* Overlapping windows of chunkSize units, each starting overlap units
\* before the end of the previous one; the last may be shorter, and a text
\* shorter than chunkSize is one chunk.  overlap >= chunkSize is an error.
chunkText(text, chunkSize, overlap) ==
  IF overlap >= chunkSize THEN InvalidChunkConfig
  ELSE ChunkFrom(text, 1, chunkSize, overlap)

\* ------------------------------------------------------------ sync-utils

\* The value of a property that is absent (JavaScript's undefined).
Undefined == <<"undefined">>

\* { ...base, ...extra }: the keys of extra win.
Spread(base, extra) ==
  [k \in (DOMAIN base) \cup (DOMAIN extra) |->
     IF k \in DOMAIN extra THEN extra[k] ELSE base[k]]

needsUpdate_lte(existingEmbeddings, updatedAt) ==
  \/ Len(existingEmbeddings) = 0
  \/ \E i \in 1..Len(existingEmbeddings) :
       LET e == existingEmbeddings[i]
       IN  \/ e.updatedAt = Undefined \/ e.updatedAt = <<>>
           \/ ~StrLess(updatedAt, e.updatedAt)

needsUpdate(existingEmbeddings, updatedAt) ==
  \/ Len(existingEmbeddings) = 0
  \/ \E i \in 1..Len(existingEmbeddings) :
       LET e == existingEmbeddings[i]
       IN  \/ e.updatedAt = Undefined \/ e.updatedAt = <<>>
           \/ StrLess(e.updatedAt, updatedAt)

ChunkId(idPrefix, sourceId, chunkIndex) ==
  idPrefix \o "_" \o sourceId \o "_chunk" \o ToString(chunkIndex)

createChunkItems(text, sourceId, sourceType, organizationId, updatedAt, idPrefix, extraMetadata, chunkSize, overlap) ==
  LET chunks == chunkText(text, chunkSize, overlap)
      items == [i \in 1..Len(chunks) |->
                 [id |-> ChunkId(idPrefix, sourceId, i - 1),
                  text |-> chunks[i],
                  metadata |->
                    Spread([organizationId |-> organizationId,
                            sourceType |-> sourceType,
                            sourceId |-> sourceId,
                            content |-> chunks[i],
                            updatedAt |-> updatedAt],
                           extraMetadata)]]
      Keep(item) == ~IsBlank(item.text)
  IN  SelectSeq(items, Keep)

\* ------------------------------------------------------------ vector index

\* What the index keeps of an item: its id and its metadata.  The text and
\* the content copy become the embedding vector, which no call of the
\* pipeline reads back.
Stored(item) ==
  [k \in (DOMAIN item.metadata) \ {"content"} |-> item.metadata[k]]

ItemIds(items) == {items[i].id : i \in 1..Len(items)}

\* query by metadata filter -> {id, updatedAt}
findEmbeddingsForSource(idx, sourceId, sourceType, organizationId) ==
  {[id |-> i, updatedAt |-> idx[i].updatedAt] :
     i \in {j \in DOMAIN idx : /\ idx[j].sourceId = sourceId
                               /\ idx[j].sourceType = sourceType
                               /\ idx[j].organizationId = organizationId}}

\* upsert by id: an item replaces the entry of the same id.
batchUpsertEmbeddings(idx, items) ==
  [i \in (DOMAIN idx) \cup ItemIds(items) |->
     IF i \in ItemIds(items)
     THEN Stored(items[CHOOSE n \in 1..Len(items) : items[n].id = i])
     ELSE idx[i]]

\* delete by id
vectorIndexDelete(idx, ids) == [i \in (DOMAIN idx) \ ids |-> idx[i]]

\* --------------------------------------------------- knowledge-base task

KBSourceType == "knowledge_base_document"

KBChunkId_noSource(document, chunkIndex) ==
  ChunkId(KBSourceType, "", chunkIndex)

KBChunkId_stamped(document, chunkIndex) ==
  ChunkId(KBSourceType,
          document.id \o "@" \o ToString(document.processedAt), chunkIndex)

\* id: `knowledge_base_document_${document.id}_chunk${chunkIndex}`
KBChunkId(document, chunkIndex) ==
  ChunkId(KBSourceType, document.id, chunkIndex)

KBMetadata_processedAt(document, payload, chunk) ==
  [organizationId |-> payload.organizationId,
   sourceType |-> KBSourceType,
   sourceId |-> document.id,
   content |-> chunk,
   documentName |-> document.name,
   updatedAt |-> ToISOString(document.processedAt)]

KBMetadata(document, payload, chunk) ==
  [organizationId |-> payload.organizationId,
   sourceType |-> KBSourceType,
   sourceId |-> document.id,
   content |-> chunk,
   documentName |-> document.name,
   updatedAt |-> ToISOString(document.updatedAt)]

\* The chunk items the task builds from the extracted content.
KBChunkItems(document, payload, content) ==
  LET chunks == chunkText(content, KBChunkSize, KBOverlap)
      items == [i \in 1..Len(chunks) |->
                 [id |-> KBChunkId(document, i - 1),
                  text |-> chunks[i],
                  metadata |-> KBMetadata(document, payload, chunks[i])]]
      Keep(item) == ~IsBlank(item.text)
  IN  SelectSeq(items, Keep)

findUnique_unlessProcessing(records, id, organizationId) ==
  IF /\ id \in DOMAIN records /\ records[id].organizationId = organizationId
     /\ records[id].processingStatus # "processing"
  THEN records[id]
  ELSE Null

findUnique_unlessFailed(records, id, organizationId) ==
  IF /\ id \in DOMAIN records /\ records[id].organizationId = organizationId
     /\ records[id].processingStatus # "failed"
  THEN records[id]
  ELSE Null

findUnique_anyOrg(records, id, organizationId) ==
  IF id \in DOMAIN records THEN records[id] ELSE Null

\* db.knowledgeBaseDocument.findUnique({ where: { id, organizationId } })
findUnique(records, id, organizationId) ==
  IF id \in DOMAIN records /\ records[id].organizationId = organizationId
  THEN records[id]
  ELSE Null

\* ------------------------------------------------------------------ state

Runs == 1..NumRuns

\* Source records in the database, and the object each one points to.
VARIABLES docs, s3, edits, clock
\* The vector index: chunk id -> stored metadata.
VARIABLES index
\* The services whose calls may fail in this behaviour ("db", "s3",
\* "index"), and which runs the
\* platform lets overlap: "none", "sources" (runs of different source ids)
\* or "all" (the task declares no queue and no concurrency key).
VARIABLES faults, scheduling
\* The task runs: position, payload, locals of run(), the delete call in
\* flight, the value returned, and the calls each run made so far.
VARIABLES nextRun, pc, payload, document, content, existing, pendingDelete,
          caught, result, outcome, log
\* Inputs and result of one call of needsUpdate.
VARIABLES nuExisting, nuUpdatedAt, nuResult, nuPc
\* The calls of getOrCreateOrgContext for one organization: the contextId
\* of its browserbaseContext row, each caller's position, the provider
\* context it holds and what its call gave; the callers whose placeholder
\* insert succeeded, and the callers of each contexts.create that succeeded.
VARIABLES ocRow, ocPc, ocContext, ocResult, ocInserted, ocCreated
\* One call of uploadAttachment or deleteAttachment: its arguments, its
\* position, the record findFirst gave, the objects in the bucket, the
\* attachment records, the calls made to S3 and the database, and what the
\* call gave.
VARIABLES atArgs, atPc, atFound, atS3, atRows, atCalls, atResult
\* One call of runBrowserAutomation: its arguments, its position, the stored run, the
\* session id it holds, the sessions open at Browserbase, the result of
\* executeAutomation, the uploaded screenshot, how the inner try block
\* completed, the outcome of every closeSession, the error caught, and what
\* the call gave; what the browser did during executeAutomation and the
\* number of page.screenshot calls; the contextId getOrgContext gave and
\* the contextId of every createSessionWithContext call.
VARIABLES bbArgs, bbPc, bbRun, bbSessionId, bbOpen, bbExec, bbScreenshot, bbPending,
          bbCloses, bbErr, bbResult, bbEnv, bbShots, bbContext, bbSessionCalls
\* One call of ApiClient.call: its arguments, its position, the
\* Authorization header, the Authorization of every fetch made, the number
\* of forceRefresh calls, the token forceRefresh gave, the first and the
\* retry response, the returned value.
VARIABLES acArgs, acPc, acAuth, acFetches, acRefreshes, acNewToken,
          acResponse, acRetryResponse, acResult
\* Inputs and result of one call of chunkText.
VARIABLES ctText, ctArgs, ctChunks, ctPc
\* Inputs and result of one call of createChunkItems, and the batches
\* upsertChunks handed to batchUpsertEmbeddings.
VARIABLES ciArgs, ciItems, ciPc, ciUpserts

kbVars == <<docs, s3, edits, clock, index, faults, scheduling, nextRun, pc,
            payload,
            document, content, existing, pendingDelete, caught, result,
            outcome, log>>
nuVars == <<nuExisting, nuUpdatedAt, nuResult, nuPc>>
ciVars == <<ciArgs, ciItems, ciPc, ciUpserts>>
ctVars == <<ctText, ctArgs, ctChunks, ctPc>>
acVars == <<acArgs, acPc, acAuth, acFetches, acRefreshes, acNewToken,
            acResponse, acRetryResponse, acResult>>
bbVars == <<bbArgs, bbPc, bbRun, bbSessionId, bbOpen, bbExec, bbScreenshot,
            bbPending, bbCloses, bbErr, bbResult, bbEnv, bbShots,
            bbContext, bbSessionCalls>>
ocVars == <<ocRow, ocPc, ocContext, ocResult, ocInserted, ocCreated>>
atVars == <<atArgs, atPc, atFound, atS3, atRows, atCalls, atResult>>
\* What an action of the knowledge-base task leaves alone.
notKbVars == <<nuVars, ciVars, ctVars, acVars, bbVars, ocVars, atVars>>
vars == <<kbVars, nuVars, ciVars, ctVars, acVars, bbVars, ocVars, atVars>>

\* Texts a knowledge-base file can hold: nothing, only white space, one
\* chunk, three chunks, and three chunks of which the middle one is blank.
CEmpty == <<>>
CBlank == <<[ch |-> " ", n |-> 3]>>
CShort == <<[ch |-> "a", n |-> 120]>>
CLong == <<[ch |-> "a", n |-> 1000]>>
CGap == <<[ch |-> "a", n |-> 450], [ch |-> " ", n |-> 500],
          [ch |-> "a", n |-> 50]>>
Contents == {CEmpty, CBlank, CShort, CLong, CGap}
\* "Hello world. " repeated 100 times: 1300 characters.
CHello ==
  <<[str |-> <<"H", "e", "l", "l", "o", " ", "w", "o", "r", "l", "d", ".", " ">>,
     n |-> 100]>>

DocIds == {"doc-1", "doc-2"}
\* The source whose content the application edits; doc-2 is a bystander
\* of another tenant.
EditableDocs == {"doc-1"}
OrgIds == {"org-1", "org-2"}
\* Payloads a run is triggered with: each document under its own
\* organization, doc-1 under the other organization, and an id no record has.
Payloads ==
  {[documentId |-> "doc-1", organizationId |-> "org-1"],
   [documentId |-> "doc-2", organizationId |-> "org-2"],
   [documentId |-> "doc-1", organizationId |-> "org-2"],
   [documentId |-> "doc-9", organizationId |-> "org-1"]}

NoPayload == [documentId |-> "", organizationId |-> ""]
NoResult == [success |-> FALSE, documentId |-> "", error |-> "",
             chunkCount |-> -1]
NoIds == {"-"}

InitDoc(id, org) ==
  [id |-> id, organizationId |-> org, name |-> id \o ".txt",
   s3Key |-> org \o "/" \o id, fileType |-> "text/plain", updatedAt |-> 1,
   processingStatus |-> "pending", processedAt |-> 0]

\* The record of a document a run of the task has embedded.
EmbeddedDoc(id, org) ==
  [InitDoc(id, org) EXCEPT !.processingStatus = "completed", !.processedAt = 1]

\* The index with the embeddings of the documents in ids, each as the task
\* leaves it after embedding the object stored for it.
EmbeddedIndex(records, objects, ids) ==
  LET Items(d) == KBChunkItems(records[d],
                               [documentId |-> d,
                                organizationId |-> records[d].organizationId],
                               Text(objects[records[d].s3Key]))
      Entries ==
        UNION {{[id |-> Items(d)[n].id, metadata |-> Stored(Items(d)[n])] :
                  n \in 1..Len(Items(d))} : d \in ids}
  IN  [i \in {e.id : e \in Entries} |->
         (CHOOSE e \in Entries : e.id = i).metadata]

\* The state the runs start from: doc-1 of org-1 holds text, doc-2 of org-2
\* a short text; the documents in embedded have been processed before, the
\* others never.
KBInitWith(failing, overlaps, text, embedded) ==
  /\ docs = [d \in DocIds |->
               LET org == IF d = "doc-1" THEN "org-1" ELSE "org-2"
               IN  IF d \in embedded THEN EmbeddedDoc(d, org)
                   ELSE InitDoc(d, org)]
  /\ s3 = [k \in {"org-1/doc-1", "org-2/doc-2"} |->
             IF k = "org-1/doc-1" THEN text ELSE CShort]
  /\ edits = 0
  /\ clock = 1
  /\ index = EmbeddedIndex(docs, s3, embedded)
  /\ faults = failing
  /\ scheduling = overlaps
  /\ nextRun = 1
  /\ pc = [r \in Runs |-> "idle"]
  /\ payload = [r \in Runs |-> NoPayload]
  /\ document = [r \in Runs |-> Null]
  /\ content = [r \in Runs |-> <<>>]
  /\ existing = [r \in Runs |-> {}]
  /\ pendingDelete = [r \in Runs |-> NoIds]
  /\ caught = [r \in Runs |-> ""]
  /\ result = [r \in Runs |-> NoResult]
  /\ outcome = [r \in Runs |-> "none"]
  /\ log = [r \in Runs |-> <<>>]

KBInit(failing, overlaps) == KBInitWith(failing, overlaps, CLong, {})

NUIdle ==
  /\ nuExisting = <<>> /\ nuUpdatedAt = <<>> /\ nuResult = FALSE
  /\ nuPc = "off"

ATIdle ==
  /\ atArgs = Null /\ atPc = "off" /\ atFound = Null /\ atS3 = {}
  /\ atRows = {} /\ atCalls = <<>> /\ atResult = Null

OCIdle ==
  /\ ocRow = "" /\ ocPc = <<>> /\ ocContext = <<>> /\ ocResult = <<>>
  /\ ocInserted = {} /\ ocCreated = <<>>

BBIdle ==
  /\ bbArgs = Null
  /\ bbPc = "off" /\ bbRun = Null /\ bbSessionId = "" /\ bbOpen = {}
  /\ bbExec = Null /\ bbScreenshot = Null /\ bbPending = Null
  /\ bbCloses = <<>> /\ bbErr = "" /\ bbResult = Null
  /\ bbEnv = Null /\ bbShots = 0
  /\ bbContext = "" /\ bbSessionCalls = <<>>

ACIdle ==
  /\ acArgs = Null /\ acPc = "off" /\ acAuth = "" /\ acFetches = <<>>
  /\ acRefreshes = 0 /\ acNewToken = "" /\ acResponse = Null
  /\ acRetryResponse = Null /\ acResult = Null

CTIdle == ctText = <<>> /\ ctArgs = Null /\ ctChunks = <<>> /\ ctPc = "off"

CIIdle == ciArgs = Null /\ ciItems = <<>> /\ ciPc = "off" /\ ciUpserts = <<>>

\* One entry of a run's call log.
Call(op, ok) ==
  [op |-> op, ok |-> ok, ids |-> {}, status |-> "", at |-> 0, items |-> {}]
\* A status write, with the processedAt it carries (0: none).
StatusCall(status, ok, at) ==
  [Call("status", ok) EXCEPT !.status = status, !.at = at]
IdsCall(op, ids, ok) == [Call(op, ok) EXCEPT !.ids = ids]
UpsertCall(items, ok) ==
  [Call("upsert", ok) EXCEPT
     !.ids = ItemIds(items),
     !.items = {[id |-> items[i].id, blank |-> IsBlank(items[i].text),
                 metadata |-> Stored(items[i])] : i \in 1..Len(items)}]

\* How a call of a service may end in this behaviour.
Outcomes(service) == IF service \in faults THEN {"ok", "error"} ELSE {"ok"}
DbOutcomes == Outcomes("db")

\* db.knowledgeBaseDocument.update({ where: { id }, data })
UpdateStatus(records, id, status, stamp) ==
  [records EXCEPT ![id].processingStatus = status,
                  ![id].processedAt =
                     IF stamp THEN clock ELSE records[id].processedAt]

RunLocals == <<payload, document, content, existing, pendingDelete, caught,
               result, outcome>>

\* ---------------------------------------------------------------- actions

Active(r) == pc[r] \notin {"idle", "done", "abandoned"}

Failure(r, error) ==
  [success |-> FALSE, documentId |-> payload[r].documentId,
   error |-> error, chunkCount |-> -1]

\* The surrounding application replaces a source's content: the object
\* changes and the record's updatedAt moves on.
EditSource(d, c) ==
  /\ edits < MaxEdits
  /\ c # s3[docs[d].s3Key]
  /\ edits' = edits + 1
  /\ clock' = clock + 1
  /\ s3' = [s3 EXCEPT ![docs[d].s3Key] = c]
  /\ docs' = [docs EXCEPT ![d].updatedAt = clock + 1]
  /\ UNCHANGED <<index, faults, scheduling, nextRun, pc, log>>
  /\ UNCHANGED RunLocals
  /\ UNCHANGED notKbVars

\* The runner dispatches a run.  Which runs may be in progress at that
\* moment is the behaviour's scheduling.
TriggerTask(r, p) ==
  /\ r = nextRun
  /\ pc[r] = "idle"
  /\ \A q \in Runs :
       Active(q) => \/ scheduling = "all"
                    \/ /\ scheduling = "sources"
                       /\ payload[q].documentId # p.documentId
  /\ nextRun' = nextRun + 1
  /\ clock' = clock + 1
  /\ payload' = [payload EXCEPT ![r] = p]
  /\ outcome' = [outcome EXCEPT ![r] = "running"]
  /\ pc' = [pc EXCEPT ![r] = "findUnique"]
  /\ UNCHANGED <<docs, s3, edits, index, faults, scheduling, log>>
  /\ UNCHANGED <<document, content, existing, pendingDelete, caught, result>>
  /\ UNCHANGED notKbVars

\* const document = await db.knowledgeBaseDocument.findUnique(...);
\* if (!document) return { success: false, error: 'Document not found' }
FindDocument(r) ==
  /\ pc[r] = "findUnique"
  /\ \E db \in DbOutcomes :
       LET found == findUnique(docs, payload[r].documentId,
                               payload[r].organizationId)
       IN  /\ log' = [log EXCEPT ![r] = Append(@, Call("findUnique", db = "ok"))]
           /\ IF db = "error"
              THEN /\ caught' = [caught EXCEPT ![r] = "DbError"]
                   /\ pc' = [pc EXCEPT ![r] = "catch"]
                   /\ UNCHANGED <<document, result, outcome>>
              ELSE IF found = Null
              THEN /\ result' = [result EXCEPT
                                   ![r] = Failure(r, "Document not found")]
                   /\ outcome' = [outcome EXCEPT ![r] = "returned"]
                   /\ pc' = [pc EXCEPT ![r] = "done"]
                   /\ UNCHANGED <<document, caught>>
              ELSE /\ document' = [document EXCEPT ![r] = found]
                   /\ pc' = [pc EXCEPT ![r] = "markProcessing"]
                   /\ UNCHANGED <<caught, result, outcome>>
  /\ UNCHANGED <<docs, s3, edits, clock, index, faults, scheduling, nextRun>>
  /\ UNCHANGED <<payload, content, existing, pendingDelete>>
  /\ UNCHANGED notKbVars

\* await db.knowledgeBaseDocument.update({ data: { processingStatus: 'processing' } })
MarkProcessing(r) ==
  /\ pc[r] = "markProcessing"
  /\ \E db \in DbOutcomes :
       /\ log' = [log EXCEPT ![r] = Append(@, StatusCall("processing", db = "ok", 0))]
       /\ IF db = "error"
          THEN /\ caught' = [caught EXCEPT ![r] = "DbError"]
               /\ pc' = [pc EXCEPT ![r] = "catch"]
               /\ UNCHANGED docs
          ELSE /\ docs' = UpdateStatus(docs, document[r].id, "processing", FALSE)
               /\ pc' = [pc EXCEPT ![r] = "extract"]
               /\ UNCHANGED caught
  /\ UNCHANGED <<s3, edits, clock, index, faults, scheduling, nextRun>>
  /\ UNCHANGED <<payload, document, content, existing, pendingDelete, result,
                 outcome>>
  /\ UNCHANGED notKbVars

\* const content = await extractContentFromKnowledgeBaseDocument(s3Key, fileType);
\* the object read or the extraction throws, or the text comes back; an
\* empty or white-space text goes to the 'No content extracted' return.
ExtractContent(r) ==
  /\ pc[r] = "extract"
  /\ \E got \in Outcomes("s3") :
       /\ log' = [log EXCEPT ![r] = Append(@, Call("s3get", got = "ok"))]
       /\ IF got = "error"
          THEN /\ caught' = [caught EXCEPT ![r] = "S3Error"]
               /\ pc' = [pc EXCEPT ![r] = "catch"]
               /\ UNCHANGED content
          ELSE /\ content' = [content EXCEPT ![r] = s3[document[r].s3Key]]
               /\ pc' = [pc EXCEPT ![r] =
                           IF IsBlank(Text(s3[document[r].s3Key]))
                           THEN "markNoContent" ELSE "findEmbeddings"]
               /\ UNCHANGED caught
  /\ UNCHANGED <<docs, s3, edits, clock, index, faults, scheduling, nextRun>>
  /\ UNCHANGED <<payload, document, existing, pendingDelete, result, outcome>>
  /\ UNCHANGED notKbVars

\* The two early returns that write 'failed' first: no content extracted,
\* and no chunks created.
MarkFailedAndReturn(r) ==
  /\ pc[r] \in {"markNoContent", "markNoChunks"}
  /\ \E db \in DbOutcomes :
       /\ log' = [log EXCEPT ![r] = Append(@, StatusCall("failed", db = "ok", clock))]
       /\ IF db = "error"
          THEN /\ caught' = [caught EXCEPT ![r] = "DbError"]
               /\ pc' = [pc EXCEPT ![r] = "catch"]
               /\ UNCHANGED <<docs, result, outcome>>
          ELSE /\ docs' = UpdateStatus(docs, document[r].id, "failed", TRUE)
               /\ result' = [result EXCEPT ![r] =
                               Failure(r, IF pc[r] = "markNoContent"
                                          THEN "No content extracted from document"
                                          ELSE "No chunks created from content")]
               /\ outcome' = [outcome EXCEPT ![r] = "returned"]
               /\ pc' = [pc EXCEPT ![r] = "done"]
               /\ UNCHANGED caught
  /\ UNCHANGED <<s3, edits, clock, index, faults, scheduling, nextRun>>
  /\ UNCHANGED <<payload, document, content, existing, pendingDelete>>
  /\ UNCHANGED notKbVars

StepAfterCleanup_completeFirst(r) ==
  IF Len(chunkText(Text(content[r]), KBChunkSize, KBOverlap)) = 0
  THEN "markNoChunks"
  ELSE "markCompleted"

\* Where the run goes once the old embeddings are dealt with: chunkText,
\* the 'no chunks' return, the item filter, and the upsert when an item is
\* left.
StepAfterCleanup(r) ==
  IF Len(chunkText(Text(content[r]), KBChunkSize, KBOverlap)) = 0
  THEN "markNoChunks"
  ELSE IF Len(KBChunkItems(document[r], payload[r], Text(content[r]))) > 0
  THEN "upsert"
  ELSE "markCompleted"

StepAfterDeleteFailed_abort(r) == "catch"

\* catch (error) { logger.warn('Failed to delete existing embeddings') }:
\* the run goes on as if the delete had succeeded.
StepAfterDeleteFailed(r) == StepAfterCleanup(r)

StepAfterDeleteIssued_noAwait(r) == StepAfterCleanup(r)

\* await vectorIndex.delete(idsToDelete): the run waits for the call.
StepAfterDeleteIssued(r) == "awaitDelete"

DeleteNeeded_never(found) == FALSE

\* if (existingEmbeddings.length > 0) { if (vectorIndex) { ... } }
DeleteNeeded(found) == Cardinality(found) > 0 /\ vectorIndex

\* const existingEmbeddings = await findEmbeddingsForSource(...); when some
\* are found the delete of all their ids is issued.
FindEmbeddings(r) ==
  /\ pc[r] = "findEmbeddings"
  /\ LET found == findEmbeddingsForSource(index, document[r].id, KBSourceType,
                                          payload[r].organizationId)
         ids == {e.id : e \in found}
     IN  /\ existing' = [existing EXCEPT ![r] = found]
         /\ IF DeleteNeeded(found)
            THEN /\ pendingDelete' = [pendingDelete EXCEPT ![r] = ids]
                 /\ log' = [log EXCEPT ![r] =
                              @ \o <<Call("query", TRUE),
                                     IdsCall("delete", ids, TRUE)>>]
                 /\ pc' = [pc EXCEPT ![r] = StepAfterDeleteIssued(r)]
            ELSE /\ log' = [log EXCEPT ![r] = Append(@, Call("query", TRUE))]
                 /\ pc' = [pc EXCEPT ![r] = StepAfterCleanup(r)]
                 /\ UNCHANGED pendingDelete
  /\ UNCHANGED <<docs, s3, edits, clock, index, faults, scheduling, nextRun>>
  /\ UNCHANGED <<payload, document, content, caught, result, outcome>>
  /\ UNCHANGED notKbVars

\* The index answers the delete: the ids are gone, or the call fails and
\* the catch around it logs a warning and goes on.
DeleteSettles(r) ==
  /\ pendingDelete[r] # NoIds
  /\ \E ok \in {o = "ok" : o \in Outcomes("index")} :
       /\ index' = IF ok THEN vectorIndexDelete(index, pendingDelete[r])
                   ELSE index
       /\ log' = [log EXCEPT ![r] =
                    Append(@, IdsCall("deleteSettled", pendingDelete[r], ok))]
       /\ pc' = [pc EXCEPT ![r] =
                   IF pc[r] # "awaitDelete" THEN pc[r]
                   ELSE IF ok THEN StepAfterCleanup(r)
                   ELSE StepAfterDeleteFailed(r)]
  /\ pendingDelete' = [pendingDelete EXCEPT ![r] = NoIds]
  /\ UNCHANGED <<docs, s3, edits, clock, faults, scheduling, nextRun>>
  /\ UNCHANGED <<payload, document, content, existing, caught, result, outcome>>
  /\ UNCHANGED notKbVars

\* await batchUpsertEmbeddings(chunkItems)
UpsertChunks(r) ==
  /\ pc[r] = "upsert"
  /\ LET items == KBChunkItems(document[r], payload[r], Text(content[r]))
     IN  \E ok \in {o = "ok" : o \in Outcomes("index")} :
           /\ log' = [log EXCEPT ![r] = Append(@, UpsertCall(items, ok))]
           /\ IF ok
              THEN /\ index' = batchUpsertEmbeddings(index, items)
                   /\ pc' = [pc EXCEPT ![r] = "markCompleted"]
                   /\ UNCHANGED caught
              ELSE /\ caught' = [caught EXCEPT ![r] = "UpsertError"]
                   /\ pc' = [pc EXCEPT ![r] = "catch"]
                   /\ UNCHANGED index
  /\ UNCHANGED <<docs, s3, edits, clock, faults, scheduling, nextRun>>
  /\ UNCHANGED <<payload, document, content, existing, pendingDelete, result,
                 outcome>>
  /\ UNCHANGED notKbVars

\* Update status to completed; return { success: true, chunkCount }
MarkCompleted(r) ==
  /\ pc[r] = "markCompleted"
  /\ \E db \in DbOutcomes :
       /\ log' = [log EXCEPT ![r] = Append(@, StatusCall("completed", db = "ok", clock))]
       /\ IF db = "error"
          THEN /\ caught' = [caught EXCEPT ![r] = "DbError"]
               /\ pc' = [pc EXCEPT ![r] = "catch"]
               /\ UNCHANGED <<docs, result, outcome>>
          ELSE /\ docs' = UpdateStatus(docs, document[r].id, "completed", TRUE)
               /\ result' = [result EXCEPT ![r] =
                    [success |-> TRUE, documentId |-> document[r].id,
                     error |-> "",
                     chunkCount |-> Len(KBChunkItems(document[r], payload[r],
                                                     Text(content[r])))]]
               /\ outcome' = [outcome EXCEPT ![r] = "returned"]
               /\ pc' = [pc EXCEPT ![r] = "done"]
               /\ UNCHANGED caught
  /\ UNCHANGED <<s3, edits, clock, index, faults, scheduling, nextRun>>
  /\ UNCHANGED <<payload, document, content, existing, pendingDelete>>
  /\ UNCHANGED notKbVars

\* How the catch block ends: return { success: false, error }.
CatchOutcome == "returned"

\* catch (error): try to write 'failed' on payload.documentId (a failure of
\* that write is logged only), then return the error as a result.
CatchAndReturn(r) ==
  /\ pc[r] = "catch"
  /\ \E db \in DbOutcomes :
       /\ log' = [log EXCEPT ![r] =
            Append(@, StatusCall("failed",
                                 db = "ok" /\ payload[r].documentId \in DOMAIN docs,
                                 clock))]
       /\ docs' = IF db = "ok" /\ payload[r].documentId \in DOMAIN docs
                  THEN UpdateStatus(docs, payload[r].documentId, "failed", TRUE)
                  ELSE docs
  /\ result' = [result EXCEPT ![r] = Failure(r, caught[r])]
  /\ outcome' = [outcome EXCEPT ![r] = CatchOutcome]
  /\ pc' = [pc EXCEPT ![r] = "done"]
  /\ UNCHANGED <<s3, edits, clock, index, faults, scheduling, nextRun>>
  /\ UNCHANGED <<payload, document, content, existing, pendingDelete, caught>>
  /\ UNCHANGED notKbVars

\* maxDuration runs out, or the worker dies: the run stops where it is.
\* Neither the rest of the try block nor the catch block runs; a call
\* already sent may still be answered.
Abandon(r) ==
  /\ Active(r)
  /\ pc' = [pc EXCEPT ![r] = "abandoned"]
  /\ outcome' = [outcome EXCEPT ![r] = "abandoned"]
  /\ log' = [log EXCEPT ![r] = Append(@, Call("abandoned", TRUE))]
  /\ UNCHANGED <<docs, s3, edits, clock, index, faults, scheduling, nextRun>>
  /\ UNCHANGED <<payload, document, content, existing, pendingDelete, caught,
                 result>>
  /\ UNCHANGED notKbVars

Next ==
  \/ \E d \in EditableDocs, c \in Contents : EditSource(d, c)
  \/ \E r \in Runs, p \in Payloads : TriggerTask(r, p)
  \/ \E r \in Runs : FindDocument(r)
  \/ \E r \in Runs : MarkProcessing(r)
  \/ \E r \in Runs : ExtractContent(r)
  \/ \E r \in Runs : MarkFailedAndReturn(r)
  \/ \E r \in Runs : FindEmbeddings(r)
  \/ \E r \in Runs : DeleteSettles(r)
  \/ \E r \in Runs : UpsertChunks(r)
  \/ \E r \in Runs : MarkCompleted(r)
  \/ \E r \in Runs : CatchAndReturn(r)

\* The pipeline with a reliable source-record store: the failures are those
\* of the object read, the index delete and the index upsert.
Init == KBInit({"s3", "index"}, "none") /\ NUIdle /\ CIIdle /\ CTIdle /\ ACIdle /\ BBIdle /\ OCIdle /\ ATIdle
Spec == Init /\ [][Next]_vars

\* The same with database calls that may fail as well.
InitDbFaults == KBInit({"db", "s3", "index"}, "none") /\ NUIdle /\ CIIdle /\ CTIdle /\ ACIdle /\ BBIdle /\ OCIdle /\ ATIdle
SpecDbFaults == InitDbFaults /\ [][Next]_vars

\* The pipeline over a source that has been embedded before: doc-1 is
\* 'completed' and its three chunks are in the index.
InitEmbedded == KBInitWith({"s3", "index"}, "none", CLong, {"doc-1"}) /\ NUIdle /\ CIIdle /\ CTIdle /\ ACIdle /\ BBIdle /\ OCIdle /\ ATIdle
SpecEmbedded == InitEmbedded /\ [][Next]_vars

\* The steps of the runs alone, over sources that hold text and are not
\* edited meanwhile (the 'no content' return is never taken).
NextRuns ==
  \/ \E r \in Runs, p \in Payloads : TriggerTask(r, p)
  \/ \E r \in Runs : FindDocument(r)
  \/ \E r \in Runs : MarkProcessing(r)
  \/ \E r \in Runs : ExtractContent(r)
  \/ \E r \in Runs : FindEmbeddings(r)
  \/ \E r \in Runs : DeleteSettles(r)
  \/ \E r \in Runs : UpsertChunks(r)
  \/ \E r \in Runs : MarkCompleted(r)
  \/ \E r \in Runs : CatchAndReturn(r)

\* The pipeline with runs of different sources overlapping, both documents
\* embedded before; doc-1 holds the text with a blank chunk.
InitParallel == KBInitWith({"s3", "index"}, "sources", CGap, DocIds) /\ NUIdle /\ CIIdle /\ CTIdle /\ ACIdle /\ BBIdle /\ OCIdle /\ ATIdle
SpecParallel == InitParallel /\ [][NextRuns]_vars

\* The pipeline over a doc-1 that holds "Hello world. " x 100 and has never
\* been embedded.
InitHello == KBInitWith({"s3", "index"}, "none", CHello, {}) /\ NUIdle /\ CIIdle /\ CTIdle /\ ACIdle /\ BBIdle /\ OCIdle /\ ATIdle
SpecHello == InitHello /\ [][NextRuns]_vars

\* The pipeline with any two runs overlapping, those of one source
\* included; doc-1 has been embedded before (chunks 0 and 2 of its text).
\* The race is between two runs, both of doc-1 for its own organization,
\* and the edits give doc-1 another text.
Racers == {1, 2}
RacingPayloads == {p \in Payloads : p.documentId = "doc-1" /\ p.organizationId = "org-1"}
RacingContents == {CShort, CLong}

NextRacing ==
  \/ \E d \in EditableDocs, c \in RacingContents : EditSource(d, c)
  \/ \E r \in Racers, p \in RacingPayloads : TriggerTask(r, p)
  \/ \E r \in Runs : FindDocument(r)
  \/ \E r \in Runs : MarkProcessing(r)
  \/ \E r \in Runs : ExtractContent(r)
  \/ \E r \in Runs : FindEmbeddings(r)
  \/ \E r \in Runs : DeleteSettles(r)
  \/ \E r \in Runs : UpsertChunks(r)
  \/ \E r \in Runs : MarkCompleted(r)

\* No call fails here (the catch block is never entered): what goes wrong
\* is the work of the interleaving alone.
InitRacing == KBInitWith({}, "all", CGap, {"doc-1"}) /\ NUIdle /\ CIIdle /\ CTIdle /\ ACIdle /\ BBIdle /\ OCIdle /\ ATIdle
SpecRacing == InitRacing /\ [][NextRacing]_vars

\* The pipeline with runs that may be abandoned at any step, over an
\* embedded doc-1; no call fails (the catch block is never entered).
NextAbandoned ==
  \/ \E d \in EditableDocs, c \in {CShort, CBlank} : EditSource(d, c)
  \/ \E r \in Runs, p \in Payloads : TriggerTask(r, p)
  \/ \E r \in Runs : FindDocument(r)
  \/ \E r \in Runs : MarkProcessing(r)
  \/ \E r \in Runs : ExtractContent(r)
  \/ \E r \in Runs : MarkFailedAndReturn(r)
  \/ \E r \in Runs : FindEmbeddings(r)
  \/ \E r \in Runs : DeleteSettles(r)
  \/ \E r \in Runs : UpsertChunks(r)
  \/ \E r \in Runs : MarkCompleted(r)
  \/ \E r \in Runs : Abandon(r)

InitAbandoned == KBInitWith({}, "none", CLong, {"doc-1"}) /\ NUIdle /\ CIIdle /\ CTIdle /\ ACIdle /\ BBIdle /\ OCIdle /\ ATIdle
SpecAbandoned == InitAbandoned /\ [][NextAbandoned]_vars

\* -------------------------------------------------- needsUpdate, called

\* "2024-MM-DD"
Date(month, day) ==
  <<"2", "0", "2", "4", "-",
    Digits[(month \div 10) + 1], Digits[(month % 10) + 1], "-",
    Digits[(day \div 10) + 1], Digits[(day % 10) + 1]>>

NUDates == {Date(1, 1), Date(1, 20), Date(2, 1), Date(3, 1)}
\* updatedAt of an existing embedding: a date, the empty string, or absent.
NUStamps == NUDates \cup {<<>>, Undefined}

RECURSIVE SeqsUpTo(_, _)
SeqsUpTo(S, n) ==
  IF n = 0 THEN {<<>>}
  ELSE LET shorter == SeqsUpTo(S, n - 1)
       IN  shorter \cup {Append(q, x) : q \in {t \in shorter : Len(t) = n - 1},
                                        x \in S}

NUInputs ==
  /\ nuExisting \in
       {[i \in 1..Len(q) |-> [id |-> "e" \o ToString(i), updatedAt |-> q[i]]] :
          q \in SeqsUpTo(NUStamps, MaxExisting)}
  /\ nuUpdatedAt \in NUDates
  /\ nuResult = FALSE
  /\ nuPc = "call"

CallNeedsUpdate ==
  /\ nuPc = "call"
  /\ nuResult' = needsUpdate(nuExisting, nuUpdatedAt)
  /\ nuPc' = "returned"
  /\ UNCHANGED <<nuExisting, nuUpdatedAt, kbVars, ciVars, ctVars, acVars, bbVars, ocVars, atVars>>

NextNeedsUpdate == CallNeedsUpdate
InitNeedsUpdate == KBInit({"s3", "index"}, "none") /\ NUInputs /\ CIIdle /\ CTIdle /\ ACIdle /\ BBIdle /\ OCIdle /\ ATIdle
SpecNeedsUpdate == InitNeedsUpdate /\ [][NextNeedsUpdate]_vars

\* ---------------------------------------------- createChunkItems, called

NoExtra == [k \in {} |-> ""]

CITexts ==
  {<<>>,
   <<[ch |-> " ", n |-> 3]>>,
   <<[ch |-> "a", n |-> 3]>>,
   <<[ch |-> "a", n |-> 9]>>,
   <<[ch |-> "a", n |-> 4], [ch |-> " ", n |-> 3], [ch |-> "a", n |-> 2]>>}

CIInputs ==
  /\ ciArgs \in
       [text : CITexts,
        sourceId : {"pol-1", "pol-2"},
        sourceType : {"policy", "context"},
        organizationId : OrgIds,
        updatedAt : {Date(1, 1), Date(2, 1)},
        idPrefix : {"policy"},
        extraMetadata : {NoExtra,
                         [policyName |-> "Access Control"],
                         [organizationId |-> "org-2"],
                         [sourceId |-> "pol-2", policyName |-> "Access Control"]},
        chunk : {[size |-> 4, overlap |-> 1],
                 [size |-> KBChunkSize, overlap |-> KBOverlap]}]
  /\ ciItems = <<>>
  /\ ciUpserts = <<>>
  /\ ciPc = "call"

CallCreateChunkItems ==
  /\ ciPc = "call"
  /\ ciItems' = createChunkItems(Text(ciArgs.text), ciArgs.sourceId,
                                 ciArgs.sourceType, ciArgs.organizationId,
                                 ciArgs.updatedAt, ciArgs.idPrefix,
                                 ciArgs.extraMetadata, ciArgs.chunk.size,
                                 ciArgs.chunk.overlap)
  /\ ciPc' = "returned"
  /\ UNCHANGED <<ciArgs, ciUpserts, kbVars, nuVars, ctVars, acVars, bbVars, ocVars, atVars>>

upsertChunks_always(chunkItems, calls) == Append(calls, chunkItems)

\* if (chunkItems.length > 0) { await batchUpsertEmbeddings(chunkItems) }
upsertChunks(chunkItems, calls) ==
  IF Len(chunkItems) > 0 THEN Append(calls, chunkItems) ELSE calls

\* The sync task hands the items to upsertChunks.
CallUpsertChunks ==
  /\ ciPc = "returned"
  /\ ciUpserts' = upsertChunks(ciItems, ciUpserts)
  /\ ciPc' = "upserted"
  /\ UNCHANGED <<ciArgs, ciItems, kbVars, nuVars, ctVars, acVars, bbVars, ocVars, atVars>>

NextChunkItems == CallCreateChunkItems \/ CallUpsertChunks
InitChunkItems == KBInit({"s3", "index"}, "none") /\ NUIdle /\ CIInputs /\ CTIdle /\ ACIdle /\ BBIdle /\ OCIdle /\ ATIdle
SpecChunkItems == InitChunkItems /\ [][NextChunkItems]_vars

\* ----------------------------------------------------- chunkText, called

\* A text in which every character names its position.
Letters == <<"a", "b", "c", "d", "e", "f", "g", "h", "i", "j", "k", "l">>

CTInputs ==
  /\ ctText \in {SubSeq(Letters, 1, n) : n \in 0..MaxText}
  /\ ctArgs \in [chunkSize : 1..MaxChunk, overlap : 0..MaxChunk]
  /\ ctChunks = <<>>
  /\ ctPc = "call"

CallChunkText ==
  /\ ctPc = "call"
  /\ ctChunks' = chunkText(ctText, ctArgs.chunkSize, ctArgs.overlap)
  /\ ctPc' = "returned"
  /\ UNCHANGED <<ctText, ctArgs, kbVars, nuVars, ciVars, acVars, bbVars, ocVars, atVars>>

NextChunkText == CallChunkText
InitChunkText == KBInit({"s3", "index"}, "none") /\ NUIdle /\ CIIdle /\ CTInputs /\ ACIdle /\ BBIdle /\ OCIdle /\ ATIdle
SpecChunkText == InitChunkText /\ [][NextChunkText]_vars

\* ------------------------------------------------------- ApiClient.call

\* What a fetch or a body read that rejects makes the call return.
NetworkError == [error |-> "Network error", status |-> 0]

\* No token: null, undefined or the empty string.
NoToken == ""

\* Response bodies: none, JSON with a message, JSON without, not JSON.
\* message is "" where the parsed value has none.
ACBodies ==
  { [kind |-> "empty", message |-> ""],
    [kind |-> "json", message |-> "denied"],
    [kind |-> "json", message |-> ""],
    [kind |-> "plain", message |-> "oops"] }

ACStatuses == {200, 204, 401, 500}

\* The responses a fetch can resolve with.
ACResponses == [status : ACStatuses, body : ACBodies]

\* response.ok
Ok(response) == response.status >= 200 /\ response.status <= 299

\* `HTTP ${status}: ${statusText}`
HttpError(response) ==
  CASE response.status = 200 -> "HTTP 200"
    [] response.status = 204 -> "HTTP 204"
    [] response.status = 401 -> "HTTP 401"
    [] response.status = 500 -> "HTTP 500"

\* JSON.parse(text), or { message: text } when the text is not JSON;
\* null when there is no text.
ParseText(body) ==
  IF body.kind = "empty" THEN Null
  ELSE [message |-> body.message]

\* data?.message || `HTTP ...`
ErrorOf(data, response) ==
  IF data # Null /\ data.message # "" THEN data.message
  ELSE HttpError(response)

\* The value returned for a response whose body gave data; a field that
\* is undefined is left out.
ResultOf(response, data) ==
  IF Ok(response) THEN [data |-> data, status |-> response.status]
  ELSE [error |-> ErrorOf(data, response), status |-> response.status]

\* The value returned for the first response when no token came back.
UnrefreshedResultOf(response, data) ==
  [error |-> ErrorOf(data, response), status |-> response.status]

ShouldRefresh_ignoreFlag(response, args) ==
  response.status = 401 /\ args.browser

\* response.status === 401 && retryOnAuthError && typeof window !== 'undefined'
ShouldRefresh(response, args) ==
  response.status = 401 /\ args.retryOnAuthError /\ args.browser

ACInputs ==
  /\ acArgs \in [retryOnAuthError : BOOLEAN, browser : BOOLEAN]
  /\ acPc = "call"
  /\ acAuth = NoToken /\ acFetches = <<>> /\ acRefreshes = 0
  /\ acNewToken = NoToken /\ acResponse = Null /\ acRetryResponse = Null
  /\ acResult = Null

\* The call gave its result; nothing else of it changes.
ACReturn(value) ==
  /\ acResult' = value
  /\ acPc' = "returned"

\* In a browser, getValidToken gives the Authorization header; a rejection
\* is logged and the call goes on without the header.
GetValidToken ==
  /\ acPc = "call"
  /\ \E token \in IF acArgs.browser THEN {"jwt-1", NoToken} ELSE {NoToken} :
       acAuth' = token
  /\ acPc' = "fetch"
  /\ UNCHANGED <<acArgs, acFetches, acRefreshes, acNewToken, acResponse,
                 acRetryResponse, acResult, kbVars, nuVars, ciVars, ctVars,
                 bbVars, ocVars, atVars>>

\* The first fetch: it rejects, or it resolves and the status decides
\* between a token refresh and returning this response.
Fetch ==
  /\ acPc = "fetch"
  /\ acFetches' = Append(acFetches, acAuth)
  /\ \/ ACReturn(NetworkError) /\ UNCHANGED acResponse
     \/ \E response \in ACResponses :
          /\ acResponse' = response
          /\ acPc' = IF ShouldRefresh(response, acArgs)
                     THEN "refresh" ELSE "read"
          /\ UNCHANGED acResult
  /\ UNCHANGED <<acArgs, acAuth, acRefreshes, acNewToken, acRetryResponse,
                 kbVars, nuVars, ciVars, ctVars,
                 bbVars, ocVars, atVars>>

\* forceRefresh rejects, gives no token, or gives a new one.
ForceRefresh ==
  /\ acPc = "refresh"
  /\ acRefreshes' = acRefreshes + 1
  /\ \/ ACReturn(NetworkError) /\ UNCHANGED acNewToken
     \/ \E newToken \in {"jwt-2", NoToken} :
          /\ acNewToken' = newToken
          /\ acPc' = IF newToken # NoToken THEN "retry" ELSE "readOriginal"
          /\ UNCHANGED acResult
  /\ UNCHANGED <<acArgs, acAuth, acFetches, acResponse, acRetryResponse,
                 kbVars, nuVars, ciVars, ctVars,
                 bbVars, ocVars, atVars>>

\* The one retry, with the new token.
RetryFetch ==
  /\ acPc = "retry"
  /\ acFetches' = Append(acFetches, acNewToken)
  /\ \/ ACReturn(NetworkError) /\ UNCHANGED acRetryResponse
     \/ \E retryResponse \in ACResponses :
          /\ acRetryResponse' = retryResponse
          /\ acPc' = "readRetry"
          /\ UNCHANGED acResult
  /\ UNCHANGED <<acArgs, acAuth, acRefreshes, acNewToken, acResponse,
                 kbVars, nuVars, ciVars, ctVars,
                 bbVars, ocVars, atVars>>

\* The retry's response is returned: no body is read for 204, and a body
\* read that rejects is a network error.
ReturnRetry ==
  /\ acPc = "readRetry"
  /\ \/ /\ acRetryResponse.status = 204
        /\ ACReturn(ResultOf(acRetryResponse, Null))
     \/ /\ acRetryResponse.status # 204
        /\ \/ ACReturn(NetworkError)
           \/ ACReturn(ResultOf(acRetryResponse,
                                ParseText(acRetryResponse.body)))
  /\ UNCHANGED <<acArgs, acAuth, acFetches, acRefreshes, acNewToken,
                 acResponse, acRetryResponse, kbVars, nuVars, ciVars, ctVars,
                 bbVars, ocVars, atVars>>

\* No token came back: the first response is returned as an error.
ReturnUnrefreshed ==
  /\ acPc = "readOriginal"
  /\ \/ ACReturn(NetworkError)
     \/ ACReturn(UnrefreshedResultOf(acResponse, ParseText(acResponse.body)))
  /\ UNCHANGED <<acArgs, acAuth, acFetches, acRefreshes, acNewToken,
                 acResponse, acRetryResponse, kbVars, nuVars, ciVars, ctVars,
                 bbVars, ocVars, atVars>>

\* The first response is returned.
ReturnResponse ==
  /\ acPc = "read"
  /\ \/ /\ acResponse.status = 204
        /\ ACReturn(ResultOf(acResponse, Null))
     \/ /\ acResponse.status # 204
        /\ \/ ACReturn(NetworkError)
           \/ ACReturn(ResultOf(acResponse, ParseText(acResponse.body)))
  /\ UNCHANGED <<acArgs, acAuth, acFetches, acRefreshes, acNewToken,
                 acResponse, acRetryResponse, kbVars, nuVars, ciVars, ctVars,
                 bbVars, ocVars, atVars>>

NextApiCall ==
  \/ GetValidToken
  \/ Fetch
  \/ ForceRefresh
  \/ RetryFetch
  \/ ReturnRetry
  \/ ReturnUnrefreshed
  \/ ReturnResponse

InitApiCall ==
  KBInit({"s3", "index"}, "none") /\ NUIdle /\ CIIdle /\ CTIdle /\ ACInputs /\ BBIdle /\ OCIdle /\ ATIdle

SpecApiCall == InitApiCall /\ [][NextApiCall]_vars

\* ------------------------------------- BrowserbaseService.runBrowserAutomation

\* How a block completes: it returns a value or it throws an error.
Return(value) == [kind |-> "return", value |-> value]
Throw(error) == [kind |-> "throw", error |-> error]

\* What the browser does during one executeAutomation: whether Stagehand
\* starts, whether a page is there and loads, what the login check, the
\* agent, the evaluation and page.screenshot do.
ExecEnvs ==
  [stagehand : {"ok", "error"}, page : {"ok", "error", "noPage"},
   login : {"loggedIn", "loggedOut", "error"}, agent : {"ok", "error"},
   evaluation : {"pass", "fail", "error"}, screenshot : {"ok", "error"}]

\* A failure result of executeAutomation; absent fields are "" or FALSE.
ExecFailure(error, needsReauth, evaluationStatus) ==
  [success |-> FALSE, needsReauth |-> needsReauth,
   evaluationStatus |-> evaluationStatus, error |-> error, screenshot |-> ""]

\* The catch of executeAutomation: the error becomes a failure result, with
\* needsReauth when the message says that no page is there.
ExecCaught(message) ==
  IF message = "No page found"
  THEN ExecFailure("Browser session ended before we could capture evidence",
                   TRUE, "")
  ELSE ExecFailure(message, FALSE, "")

\* The success result of executeAutomation.
ExecSuccess ==
  [success |-> TRUE, needsReauth |-> FALSE, evaluationStatus |-> "pass",
   error |-> "", screenshot |-> "base64"]

\* What executeAutomation gave and how often it called page.screenshot.
ExecOutcome(completion, shots) == [completion |-> completion, shots |-> shots]

executeAutomation_noAbort(env, taskContext) ==
  IF env.stagehand = "error" THEN ExecOutcome(Throw("stagehand failed"), 0)
  ELSE IF env.page = "noPage"
  THEN ExecOutcome(Return(ExecCaught("No page found")), 0)
  ELSE IF env.page = "error"
  THEN ExecOutcome(Return(ExecCaught("navigation failed")), 0)
  ELSE IF env.login = "error"
  THEN ExecOutcome(Return(ExecCaught("extract failed")), 0)
  ELSE IF env.login = "loggedOut"
  THEN ExecOutcome(Return(ExecFailure("Session expired", TRUE, "")), 0)
  ELSE IF env.agent = "error"
  THEN ExecOutcome(Return(ExecCaught("agent failed")), 0)
  ELSE IF taskContext /\ env.evaluation = "error"
  THEN ExecOutcome(Return(ExecFailure("Evaluation error", FALSE, "")), 0)
  ELSE IF env.screenshot = "error"
  THEN ExecOutcome(Return(ExecCaught("screenshot failed")), 1)
  ELSE ExecOutcome(Return(ExecSuccess), 1)

\* executeAutomation: Stagehand is started outside the try block; inside
\* it the page is loaded, the login checked, the instruction executed, the
\* requirement evaluated when there is a task context, and only then the
\* screenshot taken; any error thrown inside is caught and returned.
executeAutomation(env, taskContext) ==
  IF env.stagehand = "error" THEN ExecOutcome(Throw("stagehand failed"), 0)
  ELSE IF env.page = "noPage"
  THEN ExecOutcome(Return(ExecCaught("No page found")), 0)
  ELSE IF env.page = "error"
  THEN ExecOutcome(Return(ExecCaught("navigation failed")), 0)
  ELSE IF env.login = "error"
  THEN ExecOutcome(Return(ExecCaught("extract failed")), 0)
  ELSE IF env.login = "loggedOut"
  THEN ExecOutcome(Return(ExecFailure("Session expired", TRUE, "")), 0)
  ELSE IF env.agent = "error"
  THEN ExecOutcome(Return(ExecCaught("agent failed")), 0)
  ELSE IF taskContext /\ env.evaluation = "error"
  THEN ExecOutcome(Return(ExecFailure("Evaluation error", FALSE, "")), 0)
  ELSE IF taskContext /\ env.evaluation = "fail"
  THEN ExecOutcome(Return(ExecFailure("Requirement not met", FALSE, "fail")), 0)
  ELSE IF env.screenshot = "error"
  THEN ExecOutcome(Return(ExecCaught("screenshot failed")), 1)
  ELSE ExecOutcome(Return(ExecSuccess), 1)

\* What executeAutomation can return to a caller that gives a task context.
BBExecResults ==
  {executeAutomation(env, TRUE).completion.value :
     env \in {e \in ExecEnvs : e.stagehand = "ok"}}

\* The value returned when the evaluation failed.
FailedResult(exec) ==
  [runId |-> "run-1", success |-> FALSE, error |-> exec.error,
   evaluationStatus |-> exec.evaluationStatus,
   needsReauth |-> exec.needsReauth]

\* The value returned when the automation succeeded.
SuccessResult(screenshot) ==
  [runId |-> "run-1", success |-> TRUE,
   screenshotUrl |-> IF screenshot = Null THEN "" ELSE screenshot.url,
   evaluationStatus |-> "pass"]

\* The value returned by the outer catch.
CaughtResult(error) == [runId |-> "run-1", success |-> FALSE, error |-> error]

\* The value returned when the organization has no browser context.
NoContextResult ==
  [runId |-> "", success |-> FALSE, needsReauth |-> TRUE,
   error |-> "No browser context found"]

\* No session id is held.
NoSession == ""

\* A call that rejects.
Rejected(error) == [rejected |-> error]

\* The stored run after an update.
RunRecord(automationId, status, error, evaluationStatus) ==
  [automationId |-> automationId, status |-> status, error |-> error,
   evaluationStatus |-> evaluationStatus]

Finally_rethrow(pending, closeOutcome) ==
  IF closeOutcome = "error" THEN Throw("close failed") ELSE pending

\* The finally block: closeSession has been attempted, its failure is
\* logged and dropped, and the try block completes as it did.
Finally(pending, closeOutcome) == pending

\* ------------------------------ BrowserbaseService.getOrCreateOrgContext

PENDING_CONTEXT_ID == "__PENDING__"

\* findUnique found no browserbaseContext row of the organization.
NoRow == ""

Callers == 1..NumCallers

Settled_anyRow(row) == row # NoRow

\* existing && existing.contextId !== PENDING_CONTEXT_ID
Settled(row) == row # NoRow /\ row # PENDING_CONTEXT_ID

\* The id the provider gives to the n-th context it creates.
ProviderContextId(n) ==
  CASE n = 1 -> "ctx-1"
    [] n = 2 -> "ctx-2"
    [] n = 3 -> "ctx-3"
    [] OTHER -> "ctx-n"

\* { contextId, isNew }
ContextResult(contextId, isNew) == [contextId |-> contextId, isNew |-> isNew]

OCInputs ==
  /\ ocRow = NoRow
  /\ ocPc = [c \in Callers |-> "find"]
  /\ ocContext = [c \in Callers |-> ""]
  /\ ocResult = [c \in Callers |-> Null]
  /\ ocInserted = {}
  /\ ocCreated = <<>>

\* The call of caller c is over with this value or rejection.
OCEnd(c, position, value) ==
  /\ ocPc' = [ocPc EXCEPT ![c] = position]
  /\ ocResult' = [ocResult EXCEPT ![c] = value]

\* The fast path: a row with a real context id is returned as it is.
OCFind(c) ==
  /\ ocPc[c] = "find"
  /\ \/ /\ Settled(ocRow)
        /\ OCEnd(c, "returned", ContextResult(ocRow, FALSE))
     \/ /\ ~Settled(ocRow)
        /\ ocPc' = [ocPc EXCEPT ![c] = "insert"]
        /\ UNCHANGED ocResult
     \/ OCEnd(c, "rejected", Rejected("db error"))
  /\ UNCHANGED <<ocRow, ocContext, ocInserted, ocCreated, bbVars,
                 kbVars, nuVars, ciVars, ctVars, acVars, atVars>>

\* The placeholder row is inserted; organizationId is unique, so with a
\* row there the insert fails with P2002 and the caller goes to wait; any
\* other error is thrown.
OCInsert(c) ==
  /\ ocPc[c] = "insert"
  /\ \/ /\ ocRow = NoRow
        /\ ocRow' = PENDING_CONTEXT_ID
        /\ ocInserted' = ocInserted \cup {c}
        /\ ocPc' = [ocPc EXCEPT ![c] = "provider"]
        /\ UNCHANGED ocResult
     \/ /\ ocRow # NoRow
        /\ ocPc' = [ocPc EXCEPT ![c] = "poll"]
        /\ UNCHANGED <<ocRow, ocInserted, ocResult>>
     \/ /\ OCEnd(c, "rejected", Rejected("db error"))
        /\ UNCHANGED <<ocRow, ocInserted>>
  /\ UNCHANGED <<ocContext, ocCreated, bbVars,
                 kbVars, nuVars, ciVars, ctVars, acVars, atVars>>

\* contexts.create at the provider; its error is thrown as it is, with the
\* placeholder row left in place.
OCCreateContext(c) ==
  /\ ocPc[c] = "provider"
  /\ \/ /\ ocCreated' = Append(ocCreated, c)
        /\ ocContext' =
             [ocContext EXCEPT ![c] = ProviderContextId(Len(ocCreated) + 1)]
        /\ ocPc' = [ocPc EXCEPT ![c] = "update"]
        /\ UNCHANGED ocResult
     \/ /\ OCEnd(c, "rejected", Rejected("provider error"))
        /\ UNCHANGED <<ocCreated, ocContext>>
  /\ UNCHANGED <<ocRow, ocInserted, bbVars,
                 kbVars, nuVars, ciVars, ctVars, acVars, atVars>>

\* The row gets the provider's id and the caller returns it as new; an
\* error of the update is thrown as it is.
OCUpdate(c) ==
  /\ ocPc[c] = "update"
  /\ \/ /\ ocRow' = ocContext[c]
        /\ OCEnd(c, "returned", ContextResult(ocContext[c], TRUE))
     \/ /\ OCEnd(c, "rejected", Rejected("db error"))
        /\ UNCHANGED ocRow
  /\ UNCHANGED <<ocContext, ocInserted, ocCreated, bbVars,
                 kbVars, nuVars, ciVars, ctVars, acVars, atVars>>

\* One round of the wait loop: a real id is returned, a vanished row
\* starts the call again, a placeholder is waited on.
OCPoll(c) ==
  /\ ocPc[c] \in {"poll", "wait"}
  /\ \/ /\ Settled(ocRow)
        /\ OCEnd(c, "returned", ContextResult(ocRow, FALSE))
     \/ /\ ocRow = NoRow
        /\ ocPc' = [ocPc EXCEPT ![c] = "find"]
        /\ UNCHANGED ocResult
     \/ /\ ocRow # NoRow /\ ~Settled(ocRow)
        /\ ocPc' = [ocPc EXCEPT ![c] = "wait"]
        /\ UNCHANGED ocResult
     \/ OCEnd(c, "rejected", Rejected("db error"))
  /\ UNCHANGED <<ocRow, ocContext, ocInserted, ocCreated, bbVars,
                 kbVars, nuVars, ciVars, ctVars, acVars, atVars>>

\* MAX_WAIT_MS have passed with the placeholder still there.
OCTimeout(c) ==
  /\ ocPc[c] = "wait"
  /\ OCEnd(c, "rejected", Rejected("Browser context initialization is taking too long"))
  /\ UNCHANGED <<ocRow, ocContext, ocInserted, ocCreated, bbVars,
                 kbVars, nuVars, ciVars, ctVars, acVars, atVars>>

NextOrgContext ==
  \/ \E c \in Callers : OCFind(c)
  \/ \E c \in Callers : OCInsert(c)
  \/ \E c \in Callers : OCCreateContext(c)
  \/ \E c \in Callers : OCUpdate(c)
  \/ \E c \in Callers : OCPoll(c)
  \/ \E c \in Callers : OCTimeout(c)

\* getOrgContext: the row's contextId as it is, or null without a row.
getOrgContext(row) == IF row = NoRow THEN Null ELSE [contextId |-> row]

\* The browserbaseContext row a call for an automation can find: none, a
\* placeholder, or a provider context.
OCRowAtRest ==
  /\ ocRow \in {NoRow, PENDING_CONTEXT_ID, ProviderContextId(1)}
  /\ ocPc = <<>> /\ ocContext = <<>> /\ ocResult = <<>>
  /\ ocInserted = {} /\ ocCreated = <<>>

InitOrgContext ==
  KBInit({"s3", "index"}, "none") /\ NUIdle /\ CIIdle /\ CTIdle /\ ACIdle /\ BBIdle /\ OCInputs /\ ATIdle

SpecOrgContext == InitOrgContext /\ [][NextOrgContext]_vars

\* ------------------------------------- runBrowserAutomation, its steps

BBInputs ==
  /\ bbArgs \in [automationId : {"auto-1", "auto-2"},
                  organizationId : {"org-1"}]
  /\ bbPc = "call" /\ bbRun = Null /\ bbSessionId = NoSession /\ bbOpen = {}
  /\ bbExec = Null /\ bbScreenshot = Null /\ bbPending = Null
  /\ bbCloses = <<>> /\ bbErr = "" /\ bbResult = Null
  /\ bbEnv = Null /\ bbShots = 0
  /\ bbContext = "" /\ bbSessionCalls = <<>>

\* The automation is looked up; a missing one is an error of the call.
FindAutomation ==
  /\ bbPc = "call"
  /\ \/ bbPc' = "context" /\ UNCHANGED bbResult
     \/ \E error \in {"Automation not found", "db error"} :
          bbResult' = Rejected(error) /\ bbPc' = "rejected"
  /\ UNCHANGED <<bbArgs, bbContext, bbSessionCalls, bbEnv, bbShots, bbRun, bbSessionId, bbOpen, bbExec, bbScreenshot, bbPending,
                 bbCloses, bbErr, kbVars, nuVars, ciVars, ctVars, acVars, ocVars, atVars>>

\* Without a browser context the call returns before any run exists.
GetOrgContext ==
  /\ bbPc = "context"
  /\ \/ /\ getOrgContext(ocRow) # Null
        /\ bbContext' = getOrgContext(ocRow).contextId
        /\ bbPc' = "createRun"
        /\ UNCHANGED bbResult
     \/ /\ getOrgContext(ocRow) = Null
        /\ bbResult' = NoContextResult
        /\ bbPc' = "returned"
        /\ UNCHANGED bbContext
     \/ /\ bbResult' = Rejected("db error")
        /\ bbPc' = "rejected"
        /\ UNCHANGED bbContext
  /\ UNCHANGED <<bbArgs, bbSessionCalls, bbEnv, bbShots, bbRun, bbSessionId, bbOpen, bbExec, bbScreenshot, bbPending,
                 bbCloses, bbErr, kbVars, nuVars, ciVars, ctVars, acVars, ocVars, atVars>>

\* The run record is created 'running'.
CreateRun ==
  /\ bbPc = "createRun"
  /\ \/ /\ bbRun' = RunRecord(bbArgs.automationId, "running", "", "")
        /\ bbPc' = "session"
        /\ UNCHANGED bbResult
     \/ /\ bbResult' = Rejected("db error")
        /\ bbPc' = "rejected"
        /\ UNCHANGED bbRun
  /\ UNCHANGED <<bbArgs, bbContext, bbSessionCalls, bbEnv, bbShots, bbSessionId, bbOpen, bbExec, bbScreenshot, bbPending,
                 bbCloses, bbErr, kbVars, nuVars, ciVars, ctVars, acVars, ocVars, atVars>>

\* sessions.create and then sessions.debug: either may reject, and only
\* when both resolve does the caller hold a session id.
CreateSessionWithContext ==
  /\ bbPc = "session"
  /\ bbSessionCalls' = Append(bbSessionCalls, bbContext)
  /\ \/ /\ bbErr' = "create failed"
        /\ bbPc' = "catch"
        /\ UNCHANGED <<bbOpen, bbSessionId>>
     \/ /\ bbOpen' = bbOpen \cup {"session-1"}
        /\ bbErr' = "debug failed"
        /\ bbPc' = "catch"
        /\ UNCHANGED bbSessionId
     \/ /\ bbOpen' = bbOpen \cup {"session-1"}
        /\ bbSessionId' = "session-1"
        /\ bbPc' = "execute"
        /\ UNCHANGED bbErr
  /\ UNCHANGED <<bbArgs, bbContext, bbEnv, bbShots, bbRun, bbExec, bbScreenshot, bbPending, bbCloses, bbResult,
                 kbVars, nuVars, ciVars, ctVars, acVars, ocVars, atVars>>

\* executeAutomation is called with the task's title and description; it
\* resolves with a result or rejects.
ExecuteAutomation ==
  /\ bbPc = "execute"
  /\ \E env \in ExecEnvs :
       LET out == executeAutomation(env, TRUE)
       IN  /\ bbEnv' = env
           /\ bbShots' = bbShots + out.shots
           /\ IF out.completion.kind = "throw"
              THEN /\ bbPending' = out.completion
                   /\ bbPc' = "finally"
                   /\ UNCHANGED bbExec
              ELSE /\ bbExec' = out.completion.value
                   /\ bbPc' = IF out.completion.value.success
                              THEN "upload" ELSE "updateFailed"
                   /\ UNCHANGED bbPending
  /\ UNCHANGED <<bbArgs, bbContext, bbSessionCalls, bbRun, bbSessionId, bbOpen, bbScreenshot, bbCloses, bbErr,
                 bbResult, kbVars, nuVars, ciVars, ctVars, acVars, ocVars, atVars>>

\* The evaluation failed: the run is stored 'failed' and the failure is
\* what the try block returns.
UpdateRunFailed ==
  /\ bbPc = "updateFailed"
  /\ \/ /\ bbRun' = RunRecord(bbArgs.automationId, "failed", bbExec.error,
                            bbExec.evaluationStatus)
        /\ bbPending' = Return(FailedResult(bbExec))
     \/ /\ bbPending' = Throw("db error")
        /\ UNCHANGED bbRun
  /\ bbPc' = "finally"
  /\ UNCHANGED <<bbArgs, bbContext, bbSessionCalls, bbEnv, bbShots, bbSessionId, bbOpen, bbExec, bbScreenshot, bbCloses, bbErr,
                 bbResult, kbVars, nuVars, ciVars, ctVars, acVars, ocVars, atVars>>

\* The screenshot, when the result has one, is uploaded to S3.
UploadScreenshot ==
  /\ bbPc = "upload"
  /\ \/ /\ bbExec.screenshot = ""
        /\ bbPc' = "updateCompleted"
        /\ UNCHANGED <<bbScreenshot, bbPending>>
     \/ /\ bbExec.screenshot # ""
        /\ bbScreenshot' = [key |-> "key-1", url |-> ""]
        /\ bbPc' = "presign"
        /\ UNCHANGED bbPending
     \/ /\ bbExec.screenshot # ""
        /\ bbPending' = Throw("upload failed")
        /\ bbPc' = "finally"
        /\ UNCHANGED bbScreenshot
  /\ UNCHANGED <<bbArgs, bbContext, bbSessionCalls, bbEnv, bbShots, bbRun, bbSessionId, bbOpen, bbExec, bbCloses,
                 bbErr, bbResult, kbVars, nuVars, ciVars, ctVars, acVars, ocVars, atVars>>

\* The uploaded key gets its presigned URL.
GetPresignedUrl ==
  /\ bbPc = "presign"
  /\ \/ /\ bbScreenshot' = [bbScreenshot EXCEPT !.url = "url-1"]
        /\ bbPc' = "updateCompleted"
        /\ UNCHANGED bbPending
     \/ /\ bbPending' = Throw("presign failed")
        /\ bbPc' = "finally"
        /\ UNCHANGED bbScreenshot
  /\ UNCHANGED <<bbArgs, bbContext, bbSessionCalls, bbEnv, bbShots, bbRun, bbSessionId, bbOpen, bbExec, bbCloses,
                 bbErr, bbResult, kbVars, nuVars, ciVars, ctVars, acVars, ocVars, atVars>>

\* The run is stored 'completed' and success is what the try block returns.
UpdateRunCompleted ==
  /\ bbPc = "updateCompleted"
  /\ \/ /\ bbRun' = RunRecord(bbArgs.automationId, "completed", "", "pass")
        /\ bbPending' = Return(SuccessResult(bbScreenshot))
     \/ /\ bbPending' = Throw("db error")
        /\ UNCHANGED bbRun
  /\ bbPc' = "finally"
  /\ UNCHANGED <<bbArgs, bbContext, bbSessionCalls, bbEnv, bbShots, bbSessionId, bbOpen, bbExec, bbScreenshot, bbCloses, bbErr,
                 bbResult, kbVars, nuVars, ciVars, ctVars, acVars, ocVars, atVars>>

\* The finally block: closeSession is attempted, then the call returns
\* what the try block returned, or its error goes to the outer catch.
CloseSession ==
  /\ bbPc = "finally"
  /\ \E closeOutcome \in {"ok", "error"} :
       LET completion == Finally(bbPending, closeOutcome)
       IN  /\ bbCloses' = Append(bbCloses, closeOutcome)
           /\ bbOpen' = IF closeOutcome = "ok"
                        THEN bbOpen \ {bbSessionId} ELSE bbOpen
           /\ IF completion.kind = "return"
              THEN /\ bbResult' = completion.value
                   /\ bbPc' = "returned"
                   /\ UNCHANGED bbErr
              ELSE /\ bbErr' = completion.error
                   /\ bbPc' = "catch"
                   /\ UNCHANGED bbResult
  /\ UNCHANGED <<bbArgs, bbContext, bbSessionCalls, bbEnv, bbShots, bbRun, bbSessionId, bbExec, bbScreenshot, bbPending,
                 kbVars, nuVars, ciVars, ctVars, acVars, ocVars, atVars>>

\* The outer catch: the run is stored 'failed' and the failure returned;
\* when that update rejects, so does the call.
CatchAndFail ==
  /\ bbPc = "catch"
  /\ \/ /\ bbRun' = RunRecord(bbArgs.automationId, "failed", bbErr, "")
        /\ bbResult' = CaughtResult(bbErr)
        /\ bbPc' = "returned"
     \/ /\ bbResult' = Rejected("db error")
        /\ bbPc' = "rejected"
        /\ UNCHANGED bbRun
  /\ UNCHANGED <<bbArgs, bbContext, bbSessionCalls, bbEnv, bbShots, bbSessionId, bbOpen, bbExec, bbScreenshot, bbPending,
                 bbCloses, bbErr, kbVars, nuVars, ciVars, ctVars, acVars, ocVars, atVars>>

NextBrowserRun ==
  \/ FindAutomation
  \/ GetOrgContext
  \/ CreateRun
  \/ CreateSessionWithContext
  \/ ExecuteAutomation
  \/ UpdateRunFailed
  \/ UploadScreenshot
  \/ GetPresignedUrl
  \/ UpdateRunCompleted
  \/ CloseSession
  \/ CatchAndFail

InitBrowserRun ==
  KBInit({"s3", "index"}, "none") /\ NUIdle /\ CIIdle /\ CTIdle /\ ACIdle /\ BBInputs /\ OCRowAtRest /\ ATIdle

SpecBrowserRun == InitBrowserRun /\ [][NextBrowserRun]_vars

\* ------------------------------------------- the live-view flow of a run

\* What startAutomationWithLiveView returns once the session is there.
LiveViewResult(sessionId) ==
  [runId |-> "run-1", sessionId |-> sessionId, liveViewUrl |-> "live-1"]

\* What startAutomationWithLiveView returns without a browser context.
NoContextLiveViewResult ==
  [runId |-> "", sessionId |-> "", liveViewUrl |-> "", needsReauth |-> TRUE,
   error |-> "No browser context found"]

\* What executeAutomationOnSession returns when the evaluation failed.
FailedOnSession(exec) ==
  [success |-> FALSE, error |-> exec.error,
   evaluationStatus |-> exec.evaluationStatus,
   needsReauth |-> exec.needsReauth]

\* What executeAutomationOnSession returns when the automation succeeded.
SuccessOnSession(screenshot) ==
  [success |-> TRUE,
   screenshotUrl |-> IF screenshot = Null THEN "" ELSE screenshot.url,
   evaluationStatus |-> "pass"]

\* What the catch of executeAutomationOnSession returns.
CaughtOnSession(error) == [success |-> FALSE, error |-> error]

\* startAutomationWithLiveView looks the automation up.
LVFindAutomation ==
  /\ bbPc = "lvCall"
  /\ \/ bbPc' = "lvContext" /\ UNCHANGED bbResult
     \/ \E error \in {"Automation not found", "db error"} :
          bbResult' = Rejected(error) /\ bbPc' = "rejected"
  /\ UNCHANGED <<bbArgs, bbContext, bbSessionCalls, bbEnv, bbShots, bbRun, bbSessionId, bbOpen, bbExec,
                 bbScreenshot, bbPending, bbCloses, bbErr,
                 kbVars, nuVars, ciVars, ctVars, acVars, ocVars, atVars>>

\* Without a browser context the call returns before any run exists.
LVGetOrgContext ==
  /\ bbPc = "lvContext"
  /\ \/ /\ getOrgContext(ocRow) # Null
        /\ bbContext' = getOrgContext(ocRow).contextId
        /\ bbPc' = "lvCreateRun"
        /\ UNCHANGED bbResult
     \/ /\ getOrgContext(ocRow) = Null
        /\ bbResult' = NoContextLiveViewResult
        /\ bbPc' = "returned"
        /\ UNCHANGED bbContext
     \/ /\ bbResult' = Rejected("db error")
        /\ bbPc' = "rejected"
        /\ UNCHANGED bbContext
  /\ UNCHANGED <<bbArgs, bbSessionCalls, bbEnv, bbShots, bbRun, bbSessionId, bbOpen, bbExec,
                 bbScreenshot, bbPending, bbCloses, bbErr,
                 kbVars, nuVars, ciVars, ctVars, acVars, ocVars, atVars>>

\* The run record is created 'running'.
LVCreateRun ==
  /\ bbPc = "lvCreateRun"
  /\ \/ /\ bbRun' = RunRecord(bbArgs.automationId, "running", "", "")
        /\ bbPc' = "lvSession"
        /\ UNCHANGED bbResult
     \/ /\ bbResult' = Rejected("db error")
        /\ bbPc' = "rejected"
        /\ UNCHANGED bbRun
  /\ UNCHANGED <<bbArgs, bbContext, bbSessionCalls, bbEnv, bbShots, bbSessionId, bbOpen, bbExec,
                 bbScreenshot, bbPending, bbCloses, bbErr,
                 kbVars, nuVars, ciVars, ctVars, acVars, ocVars, atVars>>

\* The session is created outside any try block: when sessions.create or
\* sessions.debug rejects, so does the call, and nothing touches the run.
LVCreateSession ==
  /\ bbPc = "lvSession"
  /\ bbSessionCalls' = Append(bbSessionCalls, bbContext)
  /\ \/ /\ bbResult' = Rejected("create failed")
        /\ bbPc' = "rejected"
        /\ UNCHANGED <<bbOpen, bbSessionId>>
     \/ /\ bbOpen' = bbOpen \cup {"session-1"}
        /\ bbResult' = Rejected("debug failed")
        /\ bbPc' = "rejected"
        /\ UNCHANGED bbSessionId
     \/ /\ bbOpen' = bbOpen \cup {"session-1"}
        /\ bbSessionId' = "session-1"
        /\ bbResult' = LiveViewResult("session-1")
        /\ bbPc' = "lvStarted"
  /\ UNCHANGED <<bbArgs, bbContext, bbEnv, bbShots, bbRun, bbExec, bbScreenshot,
                 bbPending, bbCloses, bbErr,
                 kbVars, nuVars, ciVars, ctVars, acVars, ocVars, atVars>>

\* executeAutomationOnSession looks up the automation and the run; a
\* missing one is an error of the call, thrown before the try block.
LVFindRun ==
  /\ bbPc = "lvStarted"
  /\ \/ bbPc' = "lvExecute" /\ UNCHANGED bbResult
     \/ \E error \in {"Automation not found", "Run not found", "db error"} :
          bbResult' = Rejected(error) /\ bbPc' = "rejected"
  /\ UNCHANGED <<bbArgs, bbContext, bbSessionCalls, bbEnv, bbShots, bbRun, bbSessionId, bbOpen, bbExec,
                 bbScreenshot, bbPending, bbCloses, bbErr,
                 kbVars, nuVars, ciVars, ctVars, acVars, ocVars, atVars>>

\* executeAutomation on the session the user watches.
LVExecuteAutomation ==
  /\ bbPc = "lvExecute"
  /\ \E env \in ExecEnvs :
       LET out == executeAutomation(env, TRUE)
       IN  /\ bbEnv' = env
           /\ bbShots' = bbShots + out.shots
           /\ IF out.completion.kind = "throw"
              THEN /\ bbErr' = out.completion.error
                   /\ bbPc' = "lvCatch"
                   /\ UNCHANGED bbExec
              ELSE /\ bbExec' = out.completion.value
                   /\ bbPc' = IF out.completion.value.success
                              THEN "lvUpload" ELSE "lvUpdateFailed"
                   /\ UNCHANGED bbErr
  /\ UNCHANGED <<bbArgs, bbContext, bbSessionCalls, bbRun, bbSessionId, bbOpen, bbScreenshot, bbPending,
                 bbCloses, bbResult, kbVars, nuVars, ciVars, ctVars, acVars, ocVars, atVars>>

\* The evaluation failed: the run is stored 'failed' and the failure
\* returned.
LVUpdateRunFailed ==
  /\ bbPc = "lvUpdateFailed"
  /\ \/ /\ bbRun' = RunRecord(bbArgs.automationId, "failed", bbExec.error,
                            bbExec.evaluationStatus)
        /\ bbResult' = FailedOnSession(bbExec)
        /\ bbPc' = "returned"
        /\ UNCHANGED bbErr
     \/ /\ bbErr' = "db error"
        /\ bbPc' = "lvCatch"
        /\ UNCHANGED <<bbRun, bbResult>>
  /\ UNCHANGED <<bbArgs, bbContext, bbSessionCalls, bbEnv, bbShots, bbSessionId, bbOpen, bbExec,
                 bbScreenshot, bbPending, bbCloses,
                 kbVars, nuVars, ciVars, ctVars, acVars, ocVars, atVars>>

\* The screenshot, when the result has one, is uploaded to S3.
LVUploadScreenshot ==
  /\ bbPc = "lvUpload"
  /\ \/ /\ bbExec.screenshot = ""
        /\ bbPc' = "lvUpdateCompleted"
        /\ UNCHANGED <<bbScreenshot, bbErr>>
     \/ /\ bbExec.screenshot # ""
        /\ bbScreenshot' = [key |-> "key-1", url |-> ""]
        /\ bbPc' = "lvPresign"
        /\ UNCHANGED bbErr
     \/ /\ bbExec.screenshot # ""
        /\ bbErr' = "upload failed"
        /\ bbPc' = "lvCatch"
        /\ UNCHANGED bbScreenshot
  /\ UNCHANGED <<bbArgs, bbContext, bbSessionCalls, bbEnv, bbShots, bbRun, bbSessionId, bbOpen, bbExec,
                 bbPending, bbCloses, bbResult,
                 kbVars, nuVars, ciVars, ctVars, acVars, ocVars, atVars>>

\* The uploaded key gets its presigned URL.
LVGetPresignedUrl ==
  /\ bbPc = "lvPresign"
  /\ \/ /\ bbScreenshot' = [bbScreenshot EXCEPT !.url = "url-1"]
        /\ bbPc' = "lvUpdateCompleted"
        /\ UNCHANGED bbErr
     \/ /\ bbErr' = "presign failed"
        /\ bbPc' = "lvCatch"
        /\ UNCHANGED bbScreenshot
  /\ UNCHANGED <<bbArgs, bbContext, bbSessionCalls, bbEnv, bbShots, bbRun, bbSessionId, bbOpen, bbExec,
                 bbPending, bbCloses, bbResult,
                 kbVars, nuVars, ciVars, ctVars, acVars, ocVars, atVars>>

\* The run is stored 'completed' and success returned.
LVUpdateRunCompleted ==
  /\ bbPc = "lvUpdateCompleted"
  /\ \/ /\ bbRun' = RunRecord(bbArgs.automationId, "completed", "", "pass")
        /\ bbResult' = SuccessOnSession(bbScreenshot)
        /\ bbPc' = "returned"
        /\ UNCHANGED bbErr
     \/ /\ bbErr' = "db error"
        /\ bbPc' = "lvCatch"
        /\ UNCHANGED <<bbRun, bbResult>>
  /\ UNCHANGED <<bbArgs, bbContext, bbSessionCalls, bbEnv, bbShots, bbSessionId, bbOpen, bbExec,
                 bbScreenshot, bbPending, bbCloses,
                 kbVars, nuVars, ciVars, ctVars, acVars, ocVars, atVars>>

\* The catch of executeAutomationOnSession: the run is stored 'failed' and
\* the failure returned; when that update rejects, so does the call.
LVCatchAndFail ==
  /\ bbPc = "lvCatch"
  /\ \/ /\ bbRun' = RunRecord(bbArgs.automationId, "failed", bbErr, "")
        /\ bbResult' = CaughtOnSession(bbErr)
        /\ bbPc' = "returned"
     \/ /\ bbResult' = Rejected("db error")
        /\ bbPc' = "rejected"
        /\ UNCHANGED bbRun
  /\ UNCHANGED <<bbArgs, bbContext, bbSessionCalls, bbEnv, bbShots, bbSessionId, bbOpen, bbExec,
                 bbScreenshot, bbPending, bbCloses, bbErr,
                 kbVars, nuVars, ciVars, ctVars, acVars, ocVars, atVars>>

\* A call of runBrowserAutomation or of the live-view flow.
BBFlowInputs ==
  /\ bbArgs \in [automationId : {"auto-1", "auto-2"},
                  organizationId : {"org-1"}]
  /\ bbPc \in {"call", "lvCall"}
  /\ bbRun = Null /\ bbSessionId = NoSession /\ bbOpen = {}
  /\ bbExec = Null /\ bbScreenshot = Null /\ bbPending = Null
  /\ bbCloses = <<>> /\ bbErr = "" /\ bbResult = Null
  /\ bbEnv = Null /\ bbShots = 0
  /\ bbContext = "" /\ bbSessionCalls = <<>>

NextBrowserFlows ==
  \/ FindAutomation
  \/ GetOrgContext
  \/ CreateRun
  \/ CreateSessionWithContext
  \/ ExecuteAutomation
  \/ UpdateRunFailed
  \/ UploadScreenshot
  \/ GetPresignedUrl
  \/ UpdateRunCompleted
  \/ CloseSession
  \/ CatchAndFail
  \/ LVFindAutomation
  \/ LVGetOrgContext
  \/ LVCreateRun
  \/ LVCreateSession
  \/ LVFindRun
  \/ LVExecuteAutomation
  \/ LVUpdateRunFailed
  \/ LVUploadScreenshot
  \/ LVGetPresignedUrl
  \/ LVUpdateRunCompleted
  \/ LVCatchAndFail

InitBrowserFlows ==
  KBInit({"s3", "index"}, "none") /\ NUIdle /\ CIIdle /\ CTIdle /\ ACIdle /\ BBFlowInputs /\ OCRowAtRest /\ ATIdle

SpecBrowserFlows == InitBrowserFlows /\ [][NextBrowserFlows]_vars

\* ------------------- sessions while the organization's context is made

NextSessions ==
  \/ \E c \in Callers : OCFind(c)
  \/ \E c \in Callers : OCInsert(c)
  \/ \E c \in Callers : OCCreateContext(c)
  \/ \E c \in Callers : OCUpdate(c)
  \/ \E c \in Callers : OCPoll(c)
  \/ \E c \in Callers : OCTimeout(c)
  \/ FindAutomation
  \/ GetOrgContext
  \/ CreateRun
  \/ CreateSessionWithContext
  \/ LVFindAutomation
  \/ LVGetOrgContext
  \/ LVCreateRun
  \/ LVCreateSession

InitSessions ==
  KBInit({"s3", "index"}, "none") /\ NUIdle /\ CIIdle /\ CTIdle /\ ACIdle /\ BBFlowInputs /\ OCInputs /\ ATIdle

SpecSessions == InitSessions /\ [][NextSessions]_vars

\* ---------------------------------- AttachmentsService.uploadAttachment

\* File names and MIME types are sequences of characters.
UpperCase ==
  <<"A", "B", "C", "D", "E", "F", "G", "H", "I", "J", "K", "L", "M", "N", "O", "P", "Q", "R", "S", "T", "U", "V", "W", "X", "Y", "Z">>
LowerCase ==
  <<"a", "b", "c", "d", "e", "f", "g", "h", "i", "j", "k", "l", "m", "n", "o", "p", "q", "r", "s", "t", "u", "v", "w", "x", "y", "z">>

\* String.prototype.toLowerCase.
toLowerCase(str) ==
  [i \in 1..Len(str) |->
     IF \E k \in 1..Len(UpperCase) : UpperCase[k] = str[i]
     THEN LowerCase[CHOOSE k \in 1..Len(UpperCase) : UpperCase[k] = str[i]]
     ELSE str[i]]

\* str.split(sep).pop(): what follows the last separator, the whole string
\* when there is none.
SplitPop(str, sep) ==
  LET at == {i \in 1..Len(str) : str[i] = sep}
      from == IF at = {} THEN 1
              ELSE (CHOOSE i \in at : \A j \in at : j <= i) + 1
  IN  SubSeq(str, from, Len(str))

\* str.split(sep)[0]: what precedes the first separator.
SplitFirst(str, sep) ==
  LET at == {i \in 1..Len(str) : str[i] = sep}
      to == IF at = {} THEN Len(str)
            ELSE (CHOOSE i \in at : \A j \in at : i <= j) - 1
  IN  SubSeq(str, 1, to)

BLOCKED_EXTENSIONS ==
  { <<"e", "x", "e">>, <<"b", "a", "t">>, <<"c", "m", "d">>,
    <<"c", "o", "m">>, <<"s", "c", "r">>, <<"m", "s", "i">>, <<"j", "s">>,
    <<"v", "b", "s">>, <<"v", "b", "e">>, <<"w", "s", "f">>,
    <<"w", "s", "h">>, <<"p", "s", "1">>, <<"s", "h">>,
    <<"b", "a", "s", "h">>, <<"z", "s", "h">>, <<"d", "l", "l">>,
    <<"s", "y", "s">>, <<"d", "r", "v">>, <<"a", "p", "p">>,
    <<"d", "e", "b">>, <<"r", "p", "m">>, <<"j", "a", "r">>,
    <<"p", "i", "f">>, <<"l", "n", "k">>, <<"c", "p", "l">>,
    <<"h", "t", "a">>, <<"r", "e", "g">> }

BLOCKED_MIME_TYPES ==
  {
    <<"a", "p", "p", "l", "i", "c", "a", "t", "i", "o", "n", "/", "x", "-", "m", "s", "d", "o", "w", "n", "l", "o", "a", "d">>,
    <<"a", "p", "p", "l", "i", "c", "a", "t", "i", "o", "n", "/", "x", "-", "m", "s", "d", "o", "s", "-", "p", "r", "o", "g", "r", "a", "m">>,
    <<"a", "p", "p", "l", "i", "c", "a", "t", "i", "o", "n", "/", "x", "-", "e", "x", "e", "c", "u", "t", "a", "b", "l", "e">>,
    <<"a", "p", "p", "l", "i", "c", "a", "t", "i", "o", "n", "/", "x", "-", "s", "h">>,
    <<"a", "p", "p", "l", "i", "c", "a", "t", "i", "o", "n", "/", "x", "-", "b", "a", "t">>,
    <<"t", "e", "x", "t", "/", "x", "-", "s", "h">>,
    <<"t", "e", "x", "t", "/", "x", "-", "p", "y", "t", "h", "o", "n">>,
    <<"t", "e", "x", "t", "/", "x", "-", "p", "e", "r", "l">>,
    <<"t", "e", "x", "t", "/", "x", "-", "r", "u", "b", "y">>,
    <<"a", "p", "p", "l", "i", "c", "a", "t", "i", "o", "n", "/", "x", "-", "h", "t", "t", "p", "d", "-", "p", "h", "p">>,
    <<"a", "p", "p", "l", "i", "c", "a", "t", "i", "o", "n", "/", "x", "-", "j", "a", "v", "a", "s", "c", "r", "i", "p", "t">>,
    <<"a", "p", "p", "l", "i", "c", "a", "t", "i", "o", "n", "/", "j", "a", "v", "a", "s", "c", "r", "i", "p", "t">>,
    <<"t", "e", "x", "t", "/", "j", "a", "v", "a", "s", "c", "r", "i", "p", "t">> }

MAX_FILE_SIZE_BYTES == 10 * 1024 * 1024

\* Buffer.from(fileData, 'base64').length, fileData given as its number of
\* characters and how many of the last ones are '=' padding.
Base64Length(fileData) == (fileData.chars \div 4) * 3 - fileData.padding

\* fileName.replace(/[^a-zA-Z0-9.-]/g, '_').
sanitizeFileName(fileName) ==
  LET kept == {UpperCase[k] : k \in 1..Len(UpperCase)}
                \cup {LowerCase[k] : k \in 1..Len(LowerCase)}
                \cup {Digits[k] : k \in 1..Len(Digits)} \cup {".", "-"}
  IN  [i \in 1..Len(fileName) |->
         IF fileName[i] \in kept THEN fileName[i] ELSE "_"]

mapFileTypeToAttachmentType(fileType) ==
  LET type == SplitFirst(fileType, "/")
  IN  CASE type = <<"i", "m", "a", "g", "e">> -> "image"
        [] type = <<"v", "i", "d", "e", "o">> -> "video"
        [] type = <<"a", "u", "d", "i", "o">> -> "audio"
        [] type \in {<<"a", "p", "p", "l", "i", "c", "a", "t", "i", "o", "n">>, <<"t", "e", "x", "t">>} -> "document"
        [] OTHER -> "other"

BadRequestException(message) ==
  [name |-> "BadRequestException", message |-> message]
InternalServerErrorException(message) ==
  [name |-> "InternalServerErrorException", message |-> message]
\* What the S3 client, the signer and the database client reject with.
RawError(name) == [name |-> name, message |-> "unavailable"]

\* The three validations at the head of uploadAttachment: the exception
\* the first failing one throws, Null when all pass.
ValidateUpload(uploadDto) ==
  LET fileExt == toLowerCase(SplitPop(uploadDto.fileName, "."))
  IN  IF fileExt # <<>> /\ fileExt \in BLOCKED_EXTENSIONS
      THEN BadRequestException("File extension is not allowed")
      ELSE IF toLowerCase(uploadDto.fileType) \in BLOCKED_MIME_TYPES
      THEN BadRequestException("File type is not allowed")
      ELSE IF Base64Length(uploadDto.fileData) > MAX_FILE_SIZE_BYTES
      THEN BadRequestException("File size exceeds maximum allowed size")
      ELSE Null

\* The catch of uploadAttachment, which lets every error through.
UploadCatch_raw(error) == error

\* The catch of uploadAttachment: what the call rejects with.
UploadCatch(error) ==
  IF error.name = "BadRequestException" THEN error
  ELSE InternalServerErrorException("Failed to upload attachment")

\* One call of a client of S3 or of the database, and whether it resolved.
Called(op, key, ok) == [op |-> op, key |-> key, ok |-> ok]

\* The object key (the timestamp and the random file id left out).
S3Key(organizationId, entityId, fileName) ==
  <<organizationId, entityId, sanitizeFileName(fileName)>>

UploadFileNames ==
  { <<"r", ".", "p", "d", "f">>, <<"r", ".", "E", "X", "E">>, <<"s", "h">>,
    <<"r", ".">>, <<"a", " ", "b", ".", "t", "x", "t">>, <<"r", ".", "e", "x", "e", ".", "t", "x", "t">> }
UploadFileTypes ==
  { <<"i", "m", "a", "g", "e", "/", "p", "n", "g">>,
    <<"T", "e", "x", "t", "/", "J", "a", "v", "a", "S", "c", "r", "i", "p", "t">>,
    <<"a", "p", "p", "l", "i", "c", "a", "t", "i", "o", "n", "/", "x", "-", "s", "h">>,
    <<"t", "e", "x", "t", "/", "p", "l", "a", "i", "n">> }
\* 3 bytes; 10 MB exactly; 10 MB and one byte; 10 MB and two bytes.
UploadFileData ==
  { [chars |-> 4, padding |-> 0], [chars |-> 13981016, padding |-> 2],
    [chars |-> 13981016, padding |-> 1], [chars |-> 13981016, padding |-> 0] }

UAInputs ==
  /\ atArgs \in [organizationId : {"org-1"}, entityId : {"task-1"},
                 fileName : UploadFileNames, fileType : UploadFileTypes,
                 fileData : UploadFileData]
  /\ atPc = "call" /\ atFound = Null /\ atS3 = {} /\ atRows = {}
  /\ atCalls = <<>> /\ atResult = Null

\* The validations, up to the first await.
UAValidate ==
  /\ atPc = "call"
  /\ IF ValidateUpload(atArgs) # Null
     THEN /\ atPc' = "rejected"
          /\ atResult' = Rejected(UploadCatch(ValidateUpload(atArgs)))
     ELSE /\ atPc' = "put"
          /\ UNCHANGED atResult
  /\ UNCHANGED <<atArgs, atFound, atS3, atRows, atCalls,
                 kbVars, nuVars, ciVars, ctVars, acVars, bbVars, ocVars>>

\* await this.s3Client.send(putCommand).
UAPut ==
  /\ atPc = "put"
  /\ LET s3Key == S3Key(atArgs.organizationId, atArgs.entityId,
                        atArgs.fileName)
     IN  \/ /\ atCalls' = Append(atCalls, Called("put", s3Key, TRUE))
            /\ atS3' = atS3 \cup {s3Key}
            /\ atPc' = "create"
            /\ UNCHANGED atResult
         \/ /\ atCalls' = Append(atCalls, Called("put", s3Key, FALSE))
            /\ atPc' = "rejected"
            /\ atResult' = Rejected(UploadCatch(RawError("S3ServiceException")))
            /\ UNCHANGED atS3
  /\ UNCHANGED <<atArgs, atFound, atRows,
                 kbVars, nuVars, ciVars, ctVars, acVars, bbVars, ocVars>>

\* await db.attachment.create(...).
UACreate ==
  /\ atPc = "create"
  /\ \/ /\ atRows' = atRows \cup
                {[id |-> "att-new", organizationId |-> atArgs.organizationId,
                  url |-> S3Key(atArgs.organizationId, atArgs.entityId,
                                atArgs.fileName),
                  type |-> mapFileTypeToAttachmentType(atArgs.fileType)]}
        /\ atCalls' = Append(atCalls, Called("create", <<>>, TRUE))
        /\ atPc' = "sign"
        /\ UNCHANGED atResult
     \/ /\ atCalls' = Append(atCalls, Called("create", <<>>, FALSE))
        /\ atPc' = "rejected"
        /\ atResult' = Rejected(UploadCatch(RawError("PrismaClientError")))
        /\ UNCHANGED atRows
  /\ UNCHANGED <<atArgs, atFound, atS3,
                 kbVars, nuVars, ciVars, ctVars, acVars, bbVars, ocVars>>

\* await this.generateSignedUrl(s3Key), and the return.
UASign ==
  /\ atPc = "sign"
  /\ \/ /\ atCalls' = Append(atCalls, Called("getSignedUrl", <<>>, TRUE))
        /\ atPc' = "returned"
        /\ atResult' = [id |-> "att-new",
                        type |-> mapFileTypeToAttachmentType(atArgs.fileType),
                        size |-> Base64Length(atArgs.fileData)]
     \/ /\ atCalls' = Append(atCalls, Called("getSignedUrl", <<>>, FALSE))
        /\ atPc' = "rejected"
        /\ atResult' = Rejected(UploadCatch(RawError("SignerError")))
  /\ UNCHANGED <<atArgs, atFound, atS3, atRows,
                 kbVars, nuVars, ciVars, ctVars, acVars, bbVars, ocVars>>

NextUpload == UAValidate \/ UAPut \/ UACreate \/ UASign

InitUpload ==
  KBInit({"s3", "index"}, "none") /\ NUIdle /\ CIIdle /\ CTIdle /\ ACIdle /\ BBIdle /\ OCIdle /\ UAInputs

SpecUpload == InitUpload /\ [][NextUpload]_vars

\* ---------------------------------- AttachmentsService.deleteAttachment

\* db.attachment.findFirst({ where: { id } }), the organization left out.
FindFirst_anyOrganization(rows, attachmentId, organizationId) ==
  IF \E r \in rows : r.id = attachmentId
  THEN CHOOSE r \in rows : r.id = attachmentId
  ELSE Null

\* db.attachment.findFirst({ where: { id, organizationId } }).
FindFirst(rows, attachmentId, organizationId) ==
  IF \E r \in rows : r.id = attachmentId /\ r.organizationId = organizationId
  THEN CHOOSE r \in rows :
         r.id = attachmentId /\ r.organizationId = organizationId
  ELSE Null

\* The catch of deleteAttachment: what the call rejects with.
DeleteCatch(error) ==
  IF error.name = "BadRequestException" THEN error
  ELSE InternalServerErrorException("Failed to delete attachment")

\* The attachments stored before the call, ids being unique.
StoredRow(id, organizationId, fileName) ==
  [id |-> id, organizationId |-> organizationId,
   url |-> S3Key(organizationId, "task-1", fileName), type |-> "document"]
StoredRows ==
  { StoredRow("att-1", "org-1", <<"a">>), StoredRow("att-2", "org-2", <<"a">>),
    StoredRow("att-3", "org-1", <<"b">>) }

DAInputs ==
  /\ atRows \in SUBSET StoredRows
  /\ atS3 = {r.url : r \in atRows}
  /\ atArgs \in [organizationId : {"org-1", "org-2"},
                 attachmentId : {"att-1", "att-2", "att-3"},
                 rows : {atRows}]
  /\ atPc = "call" /\ atFound = Null /\ atCalls = <<>> /\ atResult = Null

\* await db.attachment.findFirst(...), and the check of what it found.
DAFind ==
  /\ atPc = "call"
  /\ \/ LET attachment == FindFirst(atRows, atArgs.attachmentId,
                                    atArgs.organizationId)
        IN  /\ atCalls' = Append(atCalls, Called("findFirst", <<>>, TRUE))
            /\ IF attachment = Null
               THEN /\ atPc' = "rejected"
                    /\ atResult' = Rejected(DeleteCatch(
                                     BadRequestException("Attachment not found")))
                    /\ UNCHANGED atFound
               ELSE /\ atPc' = "deleteObject"
                    /\ atFound' = attachment
                    /\ UNCHANGED atResult
     \/ /\ atCalls' = Append(atCalls, Called("findFirst", <<>>, FALSE))
        /\ atPc' = "rejected"
        /\ atResult' = Rejected(DeleteCatch(RawError("PrismaClientError")))
        /\ UNCHANGED atFound
  /\ UNCHANGED <<atArgs, atS3, atRows,
                 kbVars, nuVars, ciVars, ctVars, acVars, bbVars, ocVars>>

\* await this.s3Client.send(deleteCommand).
DADeleteObject ==
  /\ atPc = "deleteObject"
  /\ \/ /\ atCalls' = Append(atCalls, Called("deleteObject", atFound.url, TRUE))
        /\ atS3' = atS3 \ {atFound.url}
        /\ atPc' = "deleteRow"
        /\ UNCHANGED atResult
     \/ /\ atCalls' = Append(atCalls, Called("deleteObject", atFound.url, FALSE))
        /\ atPc' = "rejected"
        /\ atResult' = Rejected(DeleteCatch(RawError("S3ServiceException")))
        /\ UNCHANGED atS3
  /\ UNCHANGED <<atArgs, atFound, atRows,
                 kbVars, nuVars, ciVars, ctVars, acVars, bbVars, ocVars>>

\* await db.attachment.delete({ where: { id, organizationId } }), which
\* rejects when no row matches.
DADeleteRow ==
  /\ atPc = "deleteRow"
  /\ LET attachment == FindFirst(atRows, atArgs.attachmentId,
                                 atArgs.organizationId)
     IN  \/ /\ attachment # Null
            /\ atRows' = atRows \ {attachment}
            /\ atCalls' = Append(atCalls, Called("delete", <<>>, TRUE))
            /\ atPc' = "returned"
            /\ UNCHANGED atResult
         \/ /\ atCalls' = Append(atCalls, Called("delete", <<>>, FALSE))
            /\ atPc' = "rejected"
            /\ atResult' = Rejected(DeleteCatch(RawError("PrismaClientError")))
            /\ UNCHANGED atRows
  /\ UNCHANGED <<atArgs, atFound, atS3,
                 kbVars, nuVars, ciVars, ctVars, acVars, bbVars, ocVars>>

NextDelete == DAFind \/ DADeleteObject \/ DADeleteRow

InitDelete ==
  KBInit({"s3", "index"}, "none") /\ NUIdle /\ CIIdle /\ CTIdle /\ ACIdle /\ BBIdle /\ OCIdle /\ DAInputs

SpecDelete == InitDelete /\ [][NextDelete]_vars

\* ------------------------------------------------ reading a run's history

Done(r) == pc[r] = "done"
\* No later run has been dispatched.
Latest(r) == nextRun = r + 1
Calls(r, op) == {i \in DOMAIN log[r] : log[r][i].op = op}
HasCall(r, op) == Calls(r, op) # {}
IndexCalls(r) ==
  {i \in DOMAIN log[r] :
     log[r][i].op \in {"query", "delete", "deleteSettled", "upsert"}}
Extracted(r) == \E i \in Calls(r, "s3get") : log[r][i].ok
DeleteFailed(r) == \E i \in Calls(r, "deleteSettled") : ~log[r][i].ok
UpsertOk(r) == \E i \in Calls(r, "upsert") : log[r][i].ok
UpsertedIds(r) ==
  UNION {log[r][i].ids : i \in {j \in Calls(r, "upsert") : log[r][j].ok}}
UpsertedItems(r) ==
  UNION {log[r][i].items : i \in {j \in Calls(r, "upsert") : log[r][j].ok}}
IndexIdsOf(sourceId) == {i \in DOMAIN index : index[i].sourceId = sourceId}
LastCall(r) == log[r][Len(log[r])]

\* q re-runs r: the same payload, no run of that source in between, r
\* completed, and q found the record with the updatedAt r saw and read the
\* content r read.
Rerun(r, q) ==
  /\ r < q
  /\ payload[q] = payload[r]
  /\ \A m \in Runs :
       r < m /\ m < q => payload[m].documentId # payload[r].documentId
  /\ Done(r) /\ result[r].success
  /\ document[q] # Null
  /\ document[q].updatedAt = document[r].updatedAt
  /\ Extracted(q)
  /\ content[q] = content[r]

\* -------------------------------------------------------------- claims

\* C1: in a run of the knowledge-base task, when existing embeddings are
\* found the delete of all their ids is issued and has settled (succeeded or
\* failed) before the upsert starts, and no delete follows an upsert.
C1_DeleteSettlesBeforeUpsert ==
  \A r \in Runs :
    /\ pc[r] = "upsert" => pendingDelete[r] = NoIds
    /\ (pc[r] = "upsert" \/ HasCall(r, "upsert")) /\ existing[r] # {} =>
         \E i \in Calls(r, "delete"), j \in Calls(r, "deleteSettled") :
            /\ i < j
            /\ log[r][i].ids = {e.id : e \in existing[r]}
            /\ \A k \in Calls(r, "upsert") : j < k
    /\ \A i, j \in DOMAIN log[r] :
         i < j /\ log[r][i].op = "upsert" =>
           log[r][j].op \notin {"delete", "deleteSettled"}

C1_Witness ==
  \E r \in Runs :
    \E i \in Calls(r, "delete"), j \in Calls(r, "deleteSettled"),
       k \in Calls(r, "upsert") : i < j /\ j < k

C4_AsClaimed ==
  \A r \in Runs :
    Done(r) /\ caught[r] \in {"S3Error", "UpsertError"} =>
      /\ LastCall(r).op = "status" /\ LastCall(r).status = "failed"
      /\ LastCall(r).ok /\ LastCall(r).at # 0
      /\ outcome[r] = "threw"

\* C5: a run whose document belongs to another organization ends as a run
\* whose document does not exist: 'Document not found', nothing but the
\* lookup done (no status write, no object read, no index call).
NotOwned(r) ==
  /\ payload[r] # NoPayload
  /\ \/ payload[r].documentId \notin DOMAIN docs
     \/ docs[payload[r].documentId].organizationId # payload[r].organizationId

C5_CrossTenantIsNotFound ==
  /\ \A r \in Runs :
       NotOwned(r) =>
         /\ \A i \in DOMAIN log[r] : log[r][i].op = "findUnique"
         /\ pc[r] \in {"findUnique", "done"}
         /\ Done(r) =>
              /\ result[r] = [success |-> FALSE,
                              documentId |-> payload[r].documentId,
                              error |-> "Document not found",
                              chunkCount |-> -1]
              /\ outcome[r] = "returned"
  /\ \A r, q \in Runs :
       NotOwned(r) /\ NotOwned(q) /\ Done(r) /\ Done(q) =>
         /\ result[r].success = result[q].success
         /\ result[r].error = result[q].error
         /\ log[r] = log[q]

C5_Witness ==
  \E r, q \in Runs :
    /\ Done(r) /\ Done(q) /\ NotOwned(r) /\ NotOwned(q)
    /\ payload[r].documentId \in DOMAIN docs
    /\ payload[q].documentId \notin DOMAIN docs

\* C6: when the extracted content is empty or only white space, the run
\* makes no index call, writes 'failed' with a processedAt and returns
\* { success: false, error: 'No content extracted from document' }.
BlankRun(r) == Extracted(r) /\ content[r] \in {CEmpty, CBlank}

C6_EmptyContentFailsWithoutIndexCalls ==
  \A r \in Runs :
    BlankRun(r) =>
      /\ IndexCalls(r) = {}
      /\ pendingDelete[r] = NoIds
      /\ pc[r] \in {"markNoContent", "done"}
      /\ Done(r) =>
           /\ result[r] = [success |-> FALSE,
                           documentId |-> document[r].id,
                           error |-> "No content extracted from document",
                           chunkCount |-> -1]
           /\ outcome[r] = "returned"
           /\ LastCall(r).op = "status" /\ LastCall(r).status = "failed"
           /\ LastCall(r).ok /\ LastCall(r).at # 0
           /\ Latest(r) =>
                /\ docs[document[r].id].processingStatus = "failed"
                /\ docs[document[r].id].processedAt = LastCall(r).at

C6_Witness == \E r \in Runs : BlankRun(r) /\ Done(r) /\ content[r] = CBlank

\* The same for the empty string.
C6_EmptyStringReached ==
  \E r \in Runs : BlankRun(r) /\ Done(r) /\ content[r] = CEmpty

\* The day a "2024-MM-DD" string names, as a number: the comparison of two
\* dates as timestamps.
DateValue(d) ==
  LET v(i) == Code(d[i]) - 48
  IN  (((v(1) * 10 + v(2)) * 10 + v(3)) * 10 + v(4)) * 10000
        + (v(6) * 10 + v(7)) * 100 + v(9) * 10 + v(10)

Recorded(e) == e.updatedAt # Undefined /\ e.updatedAt # <<>>

\* C7 (as claimed): needsUpdate is true when the list is empty or some
\* embedding's recorded updatedAt is less than the source's, and false
\* otherwise.
C7_AsClaimed ==
  nuPc = "returned" =>
    nuResult =
      (\/ Len(nuExisting) = 0
       \/ \E i \in 1..Len(nuExisting) :
            /\ nuExisting[i].updatedAt # Undefined
            /\ \/ nuExisting[i].updatedAt = <<>>
               \/ DateValue(nuExisting[i].updatedAt) < DateValue(nuUpdatedAt))

\* C7 (amended): needsUpdate is true when the list is empty, when some
\* embedding has no recorded updatedAt (absent or empty), or when some
\* recorded updatedAt is earlier than the source's; false otherwise.  The
\* three examples of the specification are cases of it.
C7_NeedsUpdate ==
  nuPc = "returned" =>
    /\ nuResult =
         (\/ Len(nuExisting) = 0
          \/ \E i \in 1..Len(nuExisting) :
               \/ ~Recorded(nuExisting[i])
               \/ DateValue(nuExisting[i].updatedAt) < DateValue(nuUpdatedAt))
    /\ nuExisting = <<>> => nuResult
    /\ /\ nuExisting = <<[id |-> "e1", updatedAt |-> Date(1, 1)]>>
       /\ nuUpdatedAt = Date(2, 1)
       => nuResult
    /\ /\ nuExisting = <<[id |-> "e1", updatedAt |-> Date(3, 1)]>>
       /\ nuUpdatedAt = Date(2, 1)
       => ~nuResult

\* An embedding without updatedAt beside one that is up to date.
C7_Witness ==
  /\ nuPc = "returned" /\ nuResult
  /\ Len(nuExisting) = 2
  /\ nuExisting[1].updatedAt = Undefined
  /\ nuExisting[2].updatedAt = Date(3, 1)
  /\ nuUpdatedAt = Date(2, 1)

\* C8: a failed delete of the old embeddings does not abort the run: the
\* run goes on to the upsert, and when the upsert succeeds it ends
\* 'completed' with a success result.
C8_DeleteFailureIsSwallowed ==
  \A r \in Runs :
    DeleteFailed(r) =>
      /\ caught[r] \in {"", "UpsertError"}
      /\ pc[r] \in {"upsert", "markCompleted", "catch", "done"}
      /\ pc[r] # "upsert" => HasCall(r, "upsert")
      /\ pc[r] = "catch" => ~UpsertOk(r)
      /\ Done(r) /\ UpsertOk(r) =>
           /\ result[r].success
           /\ result[r].chunkCount = Cardinality(UpsertedIds(r))
           /\ outcome[r] = "returned"
           /\ LastCall(r).op = "status" /\ LastCall(r).status = "completed"
           /\ Latest(r) =>
                docs[document[r].id].processingStatus = "completed"

C8_Witness ==
  \E r \in Runs :
    /\ DeleteFailed(r) /\ Done(r) /\ result[r].success /\ Latest(r)
    /\ docs[document[r].id].processingStatus = "completed"

\* The ids of the specification, written out: prefix_sourceId_chunkN.
IdOf(d, n) == "knowledge_base_document_" \o d \o "_chunk" \o n
ExpectedIds(d, c) ==
  IF c = CShort THEN {IdOf(d, "0")}
  ELSE IF c = CLong THEN {IdOf(d, "0"), IdOf(d, "1"), IdOf(d, "2")}
  ELSE IF c = CGap THEN {IdOf(d, "0"), IdOf(d, "2")}
  ELSE {}

\* C9: the chunk ids depend on the source type, the source id and the
\* chunk position alone: every upsert carries prefix_sourceId_chunkN for the
\* positions of its content, two runs over the same content of a source
\* upsert the same ids, and the index never holds another id for a source.
C9_ChunkIdsAreStable ==
  /\ \A r \in Runs : \A i \in Calls(r, "upsert") :
       log[r][i].ids = ExpectedIds(document[r].id, content[r])
  /\ \A r, q \in Runs :
       /\ HasCall(r, "upsert") /\ HasCall(q, "upsert")
       /\ document[r].id = document[q].id
       /\ content[r] = content[q]
       => \A i \in Calls(r, "upsert"), j \in Calls(q, "upsert") :
             log[r][i].ids = log[q][j].ids
  /\ \A i \in DOMAIN index :
       i \in ExpectedIds(index[i].sourceId, CLong)

C9_Witness ==
  \E r, q \in Runs :
    /\ r < q /\ UpsertOk(r) /\ UpsertOk(q)
    /\ document[r].id = document[q].id
    /\ content[r] = content[q]
    /\ document[r] # document[q]
    /\ UpsertedIds(q) = ExpectedIds("doc-1", CLong)
    /\ IndexIdsOf("doc-1") = UpsertedIds(q)

\* C10 (as claimed): every item createChunkItems returns, whatever the
\* extraMetadata, carries the organizationId, sourceId, sourceType and
\* updatedAt it was called with.
C10_AsClaimed ==
  ciPc = "returned" =>
    \A i \in 1..Len(ciItems) :
      /\ ciItems[i].metadata.organizationId = ciArgs.organizationId
      /\ ciItems[i].metadata.sourceId = ciArgs.sourceId
      /\ ciItems[i].metadata.sourceType = ciArgs.sourceType
      /\ ciItems[i].metadata.updatedAt = ciArgs.updatedAt

\* The part of C10 about the knowledge-base task, which passes no
\* extraMetadata: every item it upserts is tagged with the run's
\* organization and the record's id, type and updatedAt.
KBItemsAreTagged ==
  \A r \in Runs : \A it \in UpsertedItems(r) :
    /\ it.metadata.organizationId = payload[r].organizationId
    /\ it.metadata.sourceId = document[r].id
    /\ it.metadata.sourceType = "knowledge_base_document"
    /\ it.metadata.updatedAt = ToISOString(document[r].updatedAt)

\* q is the attempt that follows the failed attempt r: the same payload,
\* of a document the organization owns, no run of that source in between,
\* and r ended in the catch block after the object read or the upsert threw.
Retry(r, q) ==
  /\ r < q
  /\ payload[q] = payload[r]
  /\ ~NotOwned(r)
  /\ \A m \in Runs :
       r < m /\ m < q => payload[m].documentId # payload[r].documentId
  /\ Done(r) /\ caught[r] \in {"S3Error", "UpsertError"}

NoFault(r) == \A i \in DOMAIN log[r] : log[r][i].ok

\* What one successful run leaves in the index for its source: the items it
\* upserted, and the ids it found and failed to delete.
LeftBy(r) ==
  UpsertedIds(r) \cup
    (IF DeleteFailed(r) THEN {e.id : e \in existing[r]} ELSE {})

IndexOf(sourceId) == [i \in IndexIdsOf(sourceId) |-> index[i]]
OwnIds(sourceId) == {IdOf(sourceId, ToString(n)) : n \in 0..2}
\* No later run of r's source has been dispatched.
LastOfSource(r) ==
  \A q \in Runs : q > r => payload[q].documentId # payload[r].documentId

\* A run reads, deletes and upserts ids of its own source only, and when it
\* is the last run of its source and succeeded, the source's entries are
\* what that run alone leaves.
C12_OwnIdsOnly ==
  \A r \in Runs :
    /\ \A e \in existing[r] : e.id \in OwnIds(document[r].id)
    /\ \A i \in DOMAIN log[r] : log[r][i].ids \subseteq OwnIds(payload[r].documentId)
    /\ Done(r) /\ result[r].success /\ LastOfSource(r) =>
         /\ IndexIdsOf(document[r].id) = LeftBy(r)
         /\ \A it \in UpsertedItems(r) : index[it.id] = it.metadata
         /\ docs[document[r].id].processingStatus = "completed"

\* A step changes the index entries or the status of a source only when it
\* is a step of a run for that source.
C12_OnlyOwnRunWrites ==
  \A d \in DocIds :
    \/ /\ IndexOf(d)' = IndexOf(d)
       /\ docs'[d].processingStatus = docs[d].processingStatus
       /\ docs'[d].processedAt = docs[d].processedAt
    \/ \E r \in Runs : payload[r].documentId = d /\ log'[r] # log[r]

\* C12: runs of different sources are independent under any interleaving:
\* a run never reads, deletes or overwrites an id of another source and
\* never changes another source's status, and what a source ends with is
\* what its own last run leaves.
C12_SourcesAreIndependent == []C12_OwnIdsOnly /\ [][C12_OnlyOwnRunWrites]_vars

\* The runs of doc-1 and doc-2 overlapped (the second was dispatched before
\* the first wrote 'completed': the two writes carry the same time), each
\* deleted and upserted, and each source holds its own chunks.
C12_Witness ==
  \E r, q \in Runs :
    /\ r < q
    /\ payload[r].documentId # payload[q].documentId
    /\ Done(r) /\ Done(q) /\ result[r].success /\ result[q].success
    /\ HasCall(r, "deleteSettled") /\ HasCall(q, "deleteSettled")
    /\ LastCall(r).at = LastCall(q).at
    /\ IndexIdsOf(document[r].id) = UpsertedIds(r)
    /\ IndexIdsOf(document[q].id) = UpsertedIds(q)

\* The index entries the current record and content of a source call for.
CurrentIndex(d) ==
  LET items == KBChunkItems(docs[d],
                            [documentId |-> d,
                             organizationId |-> docs[d].organizationId],
                            Text(s3[docs[d].s3Key]))
  IN  [i \in ItemIds(items) |->
         Stored(items[CHOOSE n \in 1..Len(items) : items[n].id = i])]

\* r and q are two runs of one source that both ended 'completed' with no
\* call of theirs failing, and no other run of the source was dispatched.
BothCompleted(r, q) ==
  /\ r < q
  /\ payload[r] = payload[q]
  /\ \A m \in Runs \ {r, q} : payload[m].documentId # payload[r].documentId
  /\ Done(r) /\ Done(q)
  /\ result[r].success /\ result[q].success
  /\ NoFault(r) /\ NoFault(q)

\* C13: nothing keeps two runs of one source apart, and what their race can
\* leave behind is bounded by what they read: when both completed having
\* read the same version of the record and the same content, the index
\* holds exactly the items of that content; when they read different
\* versions it may hold anything either of them upserted (the witness is
\* the interleaving that leaves the older version).
C13_RaceIsBoundedByWhatWasRead ==
  \A r, q \in Runs :
    BothCompleted(r, q) =>
      /\ IndexIdsOf(document[r].id) \subseteq UpsertedIds(r) \cup UpsertedIds(q)
      /\ \A i \in IndexIdsOf(document[r].id) :
           \E it \in UpsertedItems(r) \cup UpsertedItems(q) :
              it.id = i /\ it.metadata = index[i]
      /\ document[r].updatedAt = document[q].updatedAt /\ content[r] = content[q] =>
           /\ IndexIdsOf(document[r].id) = UpsertedIds(q)
           /\ \A it \in UpsertedItems(q) : index[it.id] = it.metadata

\* Two overlapping runs of doc-1 have both ended 'completed' with no call
\* failing, the record says 'completed', and the index does not hold the
\* chunk of the current content: it holds the two chunks of the version
\* before the edit.
C13_Witness ==
  \E r, q \in Runs :
    /\ BothCompleted(r, q)
    /\ LastCall(r).at = LastCall(q).at
    /\ docs["doc-1"].processingStatus = "completed"
    /\ s3[docs["doc-1"].s3Key] = CShort
    /\ IndexOf("doc-1") # CurrentIndex("doc-1")
    /\ Cardinality(IndexIdsOf("doc-1")) = 2
    /\ \A i \in IndexIdsOf("doc-1") : index[i].updatedAt = ToISOString(1)

\* The other outcome: a chunk of the current content is missing.
C13_ChunksMissing ==
  \E r, q \in Runs :
    /\ BothCompleted(r, q)
    /\ LastCall(r).at = LastCall(q).at
    /\ docs["doc-1"].processingStatus = "completed"
    /\ s3[docs["doc-1"].s3Key] = CLong
    /\ DOMAIN CurrentIndex("doc-1") \ IndexIdsOf("doc-1") # {}

\* The status writes of a run: all, and those that took effect.
StatusWrites(r, status) ==
  {i \in Calls(r, "status") : log[r][i].status = status}
Terminal(r) == StatusWrites(r, "completed") \cup StatusWrites(r, "failed")

\* C14: in a run the 'processing' write is the call after the successful
\* lookup and precedes every object read and index call; the status writes
\* after it are terminal ('completed' or 'failed', with a processedAt), at
\* most one of them takes effect and nothing follows it (a second one is
\* attempted only by the catch block, after the first one threw); and
\* 'completed' is written only after a successful upsert.
C14_StatusWritesAreOrdered ==
  \A r \in Runs :
    /\ \A i \in StatusWrites(r, "processing") :
         i = 2 /\ log[r][1].op = "findUnique" /\ log[r][1].ok
    /\ \A j \in DOMAIN log[r] :
         log[r][j].op \in {"s3get", "query", "delete", "deleteSettled", "upsert"} =>
           log[r][2].op = "status" /\ log[r][2].status = "processing" /\ log[r][2].ok
    /\ \A i \in Calls(r, "status") :
         log[r][i].status \in {"processing", "completed", "failed"}
    /\ \A i \in Terminal(r) :
         /\ log[r][i].at # 0
         /\ log[r][i].ok => i = Len(log[r]) /\ Done(r)
         /\ i < Len(log[r]) =>
              /\ i + 1 = Len(log[r])
              /\ log[r][i + 1].op = "status" /\ log[r][i + 1].status = "failed"
              /\ caught[r] = "DbError"
    /\ Cardinality(Terminal(r)) <= 2
    /\ Cardinality({i \in Terminal(r) : log[r][i].ok}) <= 1
    /\ \A i \in StatusWrites(r, "completed") :
         \E j \in Calls(r, "upsert") : j < i /\ log[r][j].ok
    /\ Done(r) /\ document[r] # Null =>
         Cardinality(Terminal(r)) >= 1

\* A run that upserted and wrote 'completed', and one that found the
\* embeddings of the first, deleted them and wrote 'failed' from the catch
\* block when its upsert threw.
C14_Witness ==
  \E r, q \in Runs :
    /\ Done(r) /\ result[r].success
    /\ [i \in DOMAIN log[r] |-> log[r][i].status] =
         <<"", "processing", "", "", "", "completed">>
    /\ Done(q) /\ caught[q] = "UpsertError" /\ HasCall(q, "deleteSettled")
    /\ Cardinality(Terminal(q)) = 1

\* With a record store that may fail: a run whose 'completed' write threw
\* and whose catch block then wrote 'failed'.
C14_SecondTerminalWrite ==
  \E q \in Runs :
    /\ Done(q) /\ Cardinality(Terminal(q)) = 2
    /\ StatusWrites(q, "completed") # {}

\* r was abandoned after its delete of the old embeddings had succeeded
\* and before it called the upsert.
AbandonedAfterDelete(r) ==
  /\ pc[r] = "abandoned"
  /\ \E i \in Calls(r, "deleteSettled"), j \in Calls(r, "abandoned") :
       log[r][i].ok /\ i < j
  /\ ~HasCall(r, "upsert")

\* r was abandoned while its delete call was awaiting the answer.
AbandonedInDelete(r) ==
  /\ pc[r] = "abandoned" /\ HasCall(r, "delete")
  /\ ~\E i \in Calls(r, "deleteSettled"), j \in Calls(r, "abandoned") : i < j

\* q is the run of the same payload dispatched right after r.
NextRunOf(r, q) == q = r + 1 /\ payload[q] = payload[r]

\* C15: after a run was abandoned between delete and upsert, the source has
\* no embedding in the index and its record stays 'processing', in every
\* state until a later run of the source upserts; the next run of the
\* source is not held back by that, and when it ends (no call failing,
\* content not blank, no delete of another abandoned run still on its way)
\* it has succeeded and the index holds exactly the chunks of the content
\* it read.
C15_AbandonedRunLeavesNoEmbeddings ==
  \A r \in Runs :
    AbandonedAfterDelete(r) =>
      /\ (\A q \in Runs : q > r => ~HasCall(q, "upsert")) =>
           IndexIdsOf(document[r].id) = {}
      /\ Latest(r) => docs[document[r].id].processingStatus = "processing"
      /\ \A q \in Runs :
           /\ NextRunOf(r, q) /\ Done(q) /\ NoFault(q) /\ ~BlankRun(q) /\ Latest(q)
           /\ \A m \in Runs : ~AbandonedInDelete(m)
           =>
             /\ result[q].success
             /\ docs[document[q].id].processingStatus = "completed"
             /\ UpsertedIds(q) =
                  ItemIds(KBChunkItems(document[q], payload[q], Text(content[q])))
             /\ IndexIdsOf(document[q].id) = UpsertedIds(q)
             /\ \A it \in UpsertedItems(q) : index[it.id] = it.metadata

\* The abandoned run deleted three chunks; the next run found none, and
\* upserted the chunks of the current content.
C15_Witness ==
  \E r, q \in Runs :
    /\ AbandonedAfterDelete(r) /\ Cardinality(existing[r]) = 3
    /\ NextRunOf(r, q) /\ Done(q) /\ result[q].success /\ Latest(q)
    /\ existing[q] = {}
    /\ IndexIdsOf("doc-1") # {}

\* The state in between: no embeddings, status 'processing', no run active.
C15_LeftEmpty ==
  \E r \in Runs :
    /\ AbandonedAfterDelete(r) /\ Latest(r)
    /\ IndexIdsOf("doc-1") = {}
    /\ docs["doc-1"].processingStatus = "processing"

\* C16: every upsert of the knowledge-base task carries at least one item
\* and no item whose text is empty or white space; a blank chunk of the
\* content takes no id away from the others (the text with a blank middle
\* chunk is upserted as chunk0 and chunk2).
C16_NoBlankChunkIsUpserted ==
  \A r \in Runs : \A i \in Calls(r, "upsert") :
    /\ log[r][i].items # {}
    /\ \A it \in log[r][i].items : ~it.blank
    /\ content[r] = CGap =>
         log[r][i].ids = {IdOf(document[r].id, "0"), IdOf(document[r].id, "2")}
    /\ Cardinality(log[r][i].ids) <=
         Len(chunkText(Text(content[r]), KBChunkSize, KBOverlap))

C16_Witness ==
  \E r \in Runs :
    /\ UpsertOk(r) /\ content[r] = CGap
    /\ Len(chunkText(Text(content[r]), KBChunkSize, KBOverlap)) = 3
    /\ IsBlank(chunkText(Text(content[r]), KBChunkSize, KBOverlap)[2])
    /\ Cardinality(IndexIdsOf(document[r].id)) = 2

\* The same for createChunkItems and upsertChunks of sync-utils: no item
\* returned is blank, and no batch is handed on when no item is left.
C16_SyncUtilsFilterBlank ==
  /\ ciPc \in {"returned", "upserted"} =>
       \A i \in 1..Len(ciItems) : ~IsBlank(ciItems[i].text)
  /\ \A n \in 1..Len(ciUpserts) :
       /\ Len(ciUpserts[n]) > 0
       /\ \A i \in 1..Len(ciUpserts[n]) : ~IsBlank(ciUpserts[n][i].text)
  /\ ciPc = "upserted" => Len(ciUpserts) = (IF Len(ciItems) > 0 THEN 1 ELSE 0)

\* A blank text: no item, no batch.
C16_NoBatchReached ==
  /\ ciPc = "upserted" /\ ciArgs.text = <<[ch |-> " ", n |-> 3]>>
  /\ ciItems = <<>> /\ ciUpserts = <<>>

\* A run of doc-1 for org-1 that read "Hello world. " x 100, found no
\* embedding of the document, and ended with none of its calls failing.
HelloRun(r) ==
  /\ payload[r] = [documentId |-> "doc-1", organizationId |-> "org-1"]
  /\ Extracted(r) /\ content[r] = CHello
  /\ Len(Text(content[r])) = 1300
  /\ HasCall(r, "query") /\ existing[r] = {}
  /\ Done(r) /\ NoFault(r)

RECURSIVE Stitch(_, _)
Stitch(chunks, overlap) ==
  IF Len(chunks) = 0 THEN <<>>
  ELSE IF Len(chunks) = 1 THEN chunks[1]
  ELSE LET front == SubSeq(chunks, 1, Len(chunks) - 1)
           last == chunks[Len(chunks)]
       IN  Stitch(front, overlap) \o SubSeq(last, overlap + 1, Len(last))

\* C18: for overlap < chunkSize the chunks stitched together with the
\* overlap removed are the text, every chunk but the last has exactly
\* chunkSize characters (the last at most chunkSize), each chunk after the
\* first starts with the last overlap characters of the one before, and a
\* text shorter than chunkSize is one chunk equal to the text.
C18_ChunksReconstructTheText ==
  ctPc = "returned" /\ ctArgs.overlap < ctArgs.chunkSize =>
    /\ Stitch(ctChunks, ctArgs.overlap) = ctText
    /\ \A i \in 1..Len(ctChunks) :
         /\ i < Len(ctChunks) => Len(ctChunks[i]) = ctArgs.chunkSize
         /\ Len(ctChunks[i]) <= ctArgs.chunkSize
         /\ i > 1 =>
              /\ Len(ctChunks[i]) > ctArgs.overlap
              /\ SubSeq(ctChunks[i], 1, ctArgs.overlap) =
                   SubSeq(ctChunks[i - 1],
                          Len(ctChunks[i - 1]) - ctArgs.overlap + 1,
                          Len(ctChunks[i - 1]))
    /\ Len(ctText) < ctArgs.chunkSize => ctChunks = <<ctText>>

\* Eight characters in windows of four with an overlap of one.
C18_Witness ==
  /\ ctPc = "returned"
  /\ ctText = <<"a", "b", "c", "d", "e", "f", "g", "h">>
  /\ ctArgs = [chunkSize |-> 4, overlap |-> 1]
  /\ ctChunks = << <<"a", "b", "c", "d">>, <<"d", "e", "f", "g">>,
                   <<"g", "h">> >>

\* C19: one call makes at most 2 fetches and at most 1 forceRefresh; a
\* second fetch is made only after a first response of 401 with
\* retryOnAuthError set, in a browser, and a new token from forceRefresh,
\* which the retry carries; once the retry has been answered the call
\* returns that response's status, 401 included, with no further fetch or
\* refresh (only a body read that rejects gives the network error instead).
C19_RetriesAtMostOnce ==
  /\ Len(acFetches) <= 2
  /\ acRefreshes <= 1
  /\ Len(acFetches) = 2 =>
       /\ acResponse # Null /\ acResponse.status = 401
       /\ acArgs.retryOnAuthError /\ acArgs.browser
       /\ acRefreshes = 1
       /\ acNewToken # "" /\ acFetches[2] = acNewToken
  /\ acRetryResponse # Null => acPc \in {"readRetry", "returned"}
  /\ acRetryResponse # Null /\ acPc = "returned" =>
       \/ acResult = NetworkError
       \/ /\ acResult.status = acRetryResponse.status
          /\ Ok(acRetryResponse) <=> "data" \in DOMAIN acResult
          /\ ~Ok(acRetryResponse) <=> "error" \in DOMAIN acResult

\* The retry was answered 401 as well, and that 401 is what the call gave.
C19_Witness ==
  /\ acPc = "returned"
  /\ Len(acFetches) = 2 /\ acRefreshes = 1
  /\ acRetryResponse # Null /\ acRetryResponse.status = 401
  /\ acResult # NetworkError /\ acResult.status = 401

\* The call is over, or past the finally block on its way to the outer catch.
PastFinally == bbPc \in {"returned", "rejected", "catch"}

\* C20: closeSession is never attempted without a session id nor twice;
\* once the call holds a session id, closeSession has been attempted exactly
\* once by the time the try block is left, whether it returned success,
\* returned a failed evaluation or threw; and whatever closeSession did, a
\* value the try block returned is the value the call returns, with the
\* stored status untouched: 'completed' with success true, 'failed' with
\* success false.
C20_CleanupNeverOverrides ==
  /\ Len(bbCloses) <= 1
  /\ bbSessionId = "" => bbCloses = <<>>
  /\ bbSessionId # "" /\ PastFinally => Len(bbCloses) = 1
  /\ bbSessionId # "" /\ ~PastFinally => bbCloses = <<>>
  /\ bbPending # Null /\ bbPending.kind = "return" =>
       /\ bbRun.status =
            IF bbPending.value.success THEN "completed" ELSE "failed"
       /\ bbPc \in {"finally", "returned"}
       /\ bbPc = "returned" => bbResult = bbPending.value
  /\ bbRun # Null /\ bbRun.status = "completed" =>
       /\ bbExec.success
       /\ bbPc = "returned" => bbResult.success

\* The automation succeeded, closeSession failed, and the call still gave
\* success with the run stored 'completed'.
C20_Witness ==
  /\ bbPc = "returned"
  /\ bbCloses = <<"error">>
  /\ bbExec # Null /\ bbExec.success
  /\ bbResult.success
  /\ bbRun.status = "completed"

\* sessions.debug rejected: a session is open at Browserbase that the call
\* holds no id of, and closeSession is not attempted.
C20_SessionWithoutId ==
  bbPc = "returned" /\ bbOpen # {} /\ bbSessionId = "" /\ bbCloses = <<>>

\* The login check failed, the evaluation said no, or the evaluation threw.
NotPassed(env) ==
  /\ env.stagehand = "ok" /\ env.page = "ok"
  /\ \/ env.login = "loggedOut"
     \/ env.login = "loggedIn" /\ env.agent = "ok"
        /\ env.evaluation \in {"fail", "error"}

\* C21: in runBrowserAutomation and in executeAutomationOnSession, when the
\* login check fails, the evaluation returns passes=false or the evaluation
\* throws, executeAutomation returns success false without a screenshot and
\* without calling page.screenshot, nothing is uploaded, the run is never
\* stored 'completed', and a call that returns has stored it 'failed'; a
\* run stored 'completed' has evaluationStatus 'pass' and comes from a
\* passed evaluation.
C21_EvidenceOnlyForPass ==
  /\ bbEnv # Null /\ NotPassed(bbEnv) =>
       /\ bbExec # Null /\ ~bbExec.success /\ bbExec.screenshot = ""
       /\ bbShots = 0
       /\ bbScreenshot = Null
       /\ bbRun.status # "completed"
       /\ bbPc = "returned" => bbRun.status = "failed"
  /\ bbShots > 0 => bbEnv.login = "loggedIn" /\ bbEnv.evaluation = "pass"
  /\ bbScreenshot # Null => bbExec.success /\ bbEnv.evaluation = "pass"
  /\ bbRun # Null /\ bbRun.status = "completed" =>
       /\ bbRun.evaluationStatus = "pass"
       /\ bbEnv.login = "loggedIn" /\ bbEnv.evaluation = "pass"

\* A live-view run whose evaluation said no: returned, stored 'failed',
\* nothing captured.
C21_Witness ==
  /\ bbPc = "returned"
  /\ bbEnv # Null /\ NotPassed(bbEnv) /\ bbEnv.evaluation = "fail"
  /\ bbEnv.login = "loggedIn"
  /\ bbSessionId # "" /\ bbCloses = <<>>
  /\ bbRun.status = "failed" /\ bbRun.evaluationStatus = "fail"
  /\ bbShots = 0 /\ bbScreenshot = Null

\* The callers of getOrCreateOrgContext that returned a value.
OCReturned == {c \in Callers : ocPc[c] = "returned"}

\* C23: with the calls for one organization interleaved in every order and
\* no row at the start, only the caller whose placeholder insert succeeded
\* calls contexts.create, so at most one provider context exists; at most
\* one caller returns isNew true, and once every call is over exactly one
\* did if any returned; all callers that return hold the same contextId,
\* the provider's, never '__PENDING__'.
C23_OneContextPerOrganization ==
  /\ Cardinality(ocInserted) <= 1
  /\ Len(ocCreated) <= 1
  /\ \A i \in 1..Len(ocCreated) : ocCreated[i] \in ocInserted
  /\ \A c \in Callers : ocPc[c] \in {"provider", "update"} => c \in ocInserted
  /\ Cardinality({c \in OCReturned : ocResult[c].isNew}) <= 1
  /\ \A c \in OCReturned :
       /\ ocResult[c].contextId # PENDING_CONTEXT_ID
       /\ Len(ocCreated) = 1
       /\ ocResult[c].contextId = ProviderContextId(1)
       /\ ocResult[c].isNew <=> c \in ocInserted
       /\ \E d \in OCReturned : ocResult[d].isNew

\* One caller created the context and another, which lost the insert and
\* waited on the placeholder, returned the same id.
C23_Witness ==
  \E c, d \in Callers :
    /\ c # d
    /\ ocPc[c] = "returned" /\ ocResult[c].isNew
    /\ ocPc[d] = "returned" /\ ~ocResult[d].isNew
    /\ ocResult[d].contextId = ocResult[c].contextId
    /\ ocInserted = {c}

\* The caller's call is over.
OCOver(c) == ocPc[c] \in {"returned", "rejected"}

\* C24, as claimed: the placeholder row never outlives the call that
\* inserted it, so a failed attempt leaves nothing that blocks later calls.
C24_AsClaimed ==
  \A c \in ocInserted : OCOver(c) => ocRow # PENDING_CONTEXT_ID

\* What the code does instead: once the inserting call has failed, the
\* placeholder stays and no call for the organization ever returns.
C24_FailedInsertBlocksAll ==
  (\E c \in ocInserted : ocPc[c] = "rejected") =>
    /\ ocRow = PENDING_CONTEXT_ID
    /\ \A d \in Callers : ocPc[d] # "returned"

\* The provider failed for the inserting caller and a call that started
\* after that failure timed out on the placeholder.
C24_LaterCallTimedOut ==
  \E c, d \in Callers :
    /\ c \in ocInserted /\ ocPc[c] = "rejected"
    /\ ocResult[c] = Rejected("provider error")
    /\ d # c /\ ocPc[d] = "rejected"
    /\ ocResult[d] = Rejected("Browser context initialization is taking too long")

\* C25, as claimed: no createSessionWithContext call is given the
\* placeholder as its context id.
C25_AsClaimed ==
  \A i \in 1..Len(bbSessionCalls) : bbSessionCalls[i] # PENDING_CONTEXT_ID

\* What does hold: a session is only asked for with the contextId the
\* organization's row held when getOrgContext read it.
C25_SessionUsesTheRowAsRead ==
  \A i \in 1..Len(bbSessionCalls) :
    bbSessionCalls[i] = bbContext /\ bbContext # NoRow

\* getOrgContext read the row between the placeholder insert and the
\* update, and a Browserbase session was created with '__PENDING__'.
C25_SessionWithPlaceholder ==
  /\ bbSessionCalls = <<PENDING_CONTEXT_ID>>
  /\ bbSessionId # "" /\ bbOpen # {}

\* The operation that created the run has ended.
BBOver == bbPc \in {"returned", "rejected"}

\* C26, as claimed: once the operation that created a run record has
\* ended, by returning or by throwing, the run is 'completed' or 'failed'.
C26_AsClaimed ==
  BBOver /\ bbRun # Null => bbRun.status \in {"completed", "failed"}

\* What does hold: an operation that returns a value leaves no run
\* 'running'; only one that throws can.
C26_ReturnedRunsAreTerminal ==
  bbPc = "returned" /\ bbRun # Null =>
    bbRun.status \in {"completed", "failed"}

\* startAutomationWithLiveView created the run, session creation failed,
\* the call threw and the run is still 'running'.
C26_RunLeftRunning ==
  /\ bbPc = "rejected"
  /\ bbResult = Rejected("create failed")
  /\ bbSessionCalls # <<>> /\ bbSessionId = ""
  /\ bbRun # Null /\ bbRun.status = "running"

\* The upload is one the three validations refuse.
UploadBlocked ==
  \/ toLowerCase(SplitPop(atArgs.fileName, ".")) \in BLOCKED_EXTENSIONS
  \/ toLowerCase(atArgs.fileType) \in BLOCKED_MIME_TYPES
  \/ Base64Length(atArgs.fileData) > MAX_FILE_SIZE_BYTES

\* C22: an upload with a blocked extension, a blocked MIME type or more
\* than 10 MB of decoded data makes no call to S3 or the database, stores
\* nothing and is rejected with BadRequestException; every other rejection
\* is the InternalServerErrorException, never the error that caused it.
C22_UploadRejections ==
  /\ UploadBlocked =>
       /\ atCalls = <<>> /\ atS3 = {} /\ atRows = {}
       /\ atPc \in {"call", "rejected"}
       /\ atPc = "rejected" => atResult.rejected.name = "BadRequestException"
  /\ ~UploadBlocked /\ atPc = "rejected" =>
       atResult = Rejected(InternalServerErrorException(
                             "Failed to upload attachment"))

\* An upload refused for its size alone (one byte over 10 MB).
C22_Witness ==
  /\ atPc = "rejected"
  /\ Base64Length(atArgs.fileData) = MAX_FILE_SIZE_BYTES + 1
  /\ toLowerCase(SplitPop(atArgs.fileName, ".")) \notin BLOCKED_EXTENSIONS
  /\ toLowerCase(atArgs.fileType) \notin BLOCKED_MIME_TYPES
  /\ atResult.rejected.name = "BadRequestException"
  /\ atCalls = <<>>

\* An upload whose database insert failed after the object was put.
C22_InsertFailed ==
  /\ atPc = "rejected"
  /\ Len(atCalls) = 2 /\ atCalls[2] = Called("create", <<>>, FALSE)
  /\ atResult.rejected.name = "InternalServerErrorException"

\* The attachment exists under the caller's organization before the call.
DeletePresent ==
  \E r \in atArgs.rows :
    r.id = atArgs.attachmentId /\ r.organizationId = atArgs.organizationId

\* The calls of the given operation made so far.
DeleteCalls(op) == {i \in 1..Len(atCalls) : atCalls[i].op = op}

\* C28: the database record is removed only after the object's S3
\* delete succeeded; an attachment not found under the caller's
\* organization gives BadRequestException('Attachment not found') with no
\* S3 delete and no database delete; a failed S3 delete gives
\* InternalServerErrorException and leaves the records as they were.
C28_DeleteOrder ==
  /\ atRows # atArgs.rows =>
       \E i \in DeleteCalls("deleteObject") :
         /\ atCalls[i].ok /\ atCalls[i].key \notin atS3
         /\ atRows = {r \in atArgs.rows : r.url # atCalls[i].key}
  /\ ~DeletePresent =>
       /\ DeleteCalls("deleteObject") = {} /\ DeleteCalls("delete") = {}
       /\ atRows = atArgs.rows /\ atS3 = {r.url : r \in atArgs.rows}
       /\ atPc \in {"call", "rejected"}
       /\ atPc = "rejected" /\ atCalls[1].ok =>
            atResult = Rejected(BadRequestException("Attachment not found"))
  /\ \A i \in DeleteCalls("deleteObject") : ~atCalls[i].ok =>
       /\ atPc = "rejected"
       /\ atResult = Rejected(InternalServerErrorException(
                                "Failed to delete attachment"))
       /\ atRows = atArgs.rows /\ DeleteCalls("delete") = {}

\* A delete whose S3 delete failed, two records being stored.
C28_Witness ==
  /\ atPc = "rejected" /\ DeletePresent
  /\ \E i \in DeleteCalls("deleteObject") : ~atCalls[i].ok
  /\ atRows = atArgs.rows /\ atArgs.rows # {}

\* A delete asked for another organization's attachment.
C28_OtherOrganization ==
  /\ atPc = "rejected" /\ ~DeletePresent
  /\ \E r \in atArgs.rows : r.id = atArgs.attachmentId
  /\ atResult = Rejected(BadRequestException("Attachment not found"))

\* The last run dispatched has returned after its 'processing' write took
\* effect (runs are serial here: nothing has touched the record since).
ReturnedAfterProcessing(r) ==
  /\ r = nextRun - 1 /\ Done(r) /\ outcome[r] = "returned"
  /\ 2 \in StatusWrites(r, "processing") /\ log[r][2].ok

\* C27, as claimed: no run throws to the runner, and a run that marked its
\* document 'processing' and returned has left it 'completed' or 'failed',
\* with success true exactly when it is 'completed'.
C27_AsClaimed ==
  \A r \in Runs :
    /\ outcome[r] # "threw"
    /\ ReturnedAfterProcessing(r) =>
         LET status == docs[payload[r].documentId].processingStatus
         IN  /\ status \in {"completed", "failed"}
             /\ result[r].success <=> status = "completed"

\* What does hold: the same, for the runs whose last status write took
\* effect; when the catch block's write of 'failed' is rejected the run
\* returns success false and the document is still 'processing'.
C27_UnlessTheLastWriteFailed ==
  \A r \in Runs :
    /\ outcome[r] # "threw"
    /\ ReturnedAfterProcessing(r) =>
         LET status == docs[payload[r].documentId].processingStatus
         IN  IF LastCall(r).ok
             THEN /\ status \in {"completed", "failed"}
                  /\ result[r].success <=> status = "completed"
             ELSE /\ status = "processing" /\ ~result[r].success
                  /\ LastCall(r).op = "status"
                  /\ LastCall(r).status = "failed"

\* A run returned success false and left its document 'processing'.
C27_LeftProcessing ==
  \E r \in Runs :
    /\ ReturnedAfterProcessing(r) /\ ~result[r].success
    /\ docs[payload[r].documentId].processingStatus = "processing"
    /\ caught[r] = "S3Error"

====
